---- MODULE Spec2Model ----
(***************************************************************************)
(* Model of node_features_cpuinfo.c (Slurm node_features/cpuinfo plugin).  *)
(*                                                                         *)
(* C strings are sequences of one-character strings, without their         *)
(* terminating NUL; a NULL pointer is the distinguished value Null.  A     *)
(* buffer that the code scribbles NULs into (strtok_r) keeps the NUL       *)
(* characters explicitly and is read back as a C string by CStr.           *)
(***************************************************************************)
EXTENDS Integers, Sequences, FiniteSets, TLC

VARIABLES
    have_pci,   \* build option HAVE_PCI_DETECTION
    cf,         \* a call of node_features_p_changible_feature
    xl,         \* a call of node_features_p_node_xlate
    jx,         \* a call of node_features_p_job_xlate
    rd,         \* a line_reader_t object, its file and its caller's record of lines
    pv,         \* a call of one parser callback on the value of a cpuinfo line
    ns,         \* the plugin's cached record and a caller of node_features_p_node_state
    th,         \* threads of the host inside the plugin, config_mutex, the shared record
    cli         \* one pass of the loop of the test program's main

vars == <<have_pci, cf, xl, jx, rd, pv, ns, th, cli>>

-----------------------------------------------------------------------------
(* Bounds of the checked instances *)

MaxTokens == 2      \* tokens in a generated feature list / job expression
MaxSuffix == 1      \* characters after (and before) a prefix in a feature name
MaxLines  == 2      \* lines in a generated file
MaxNulls  == 2      \* calls of line_reader_nextline that return NULL
MaxFlags  == 2      \* tokens in a generated flags value
MaxModel  == 4      \* characters in a generated model name value
MaxCalls  == 2      \* calls of node_features_p_node_state
MaxThreads == 2     \* threads of the host that call into the plugin

-----------------------------------------------------------------------------
(* C string basics *)

Null == << "(null)" >>          \* the NULL pointer; no C string has this value
NUL  == "NUL"                   \* the character '\0' inside a buffer

\* the value of a set of one element: TheOne({ e(x) : x \in { v } }) is e(v),
\* with v evaluated once
TheOne(S) == CHOOSE x \in S : TRUE

IsEmpty(s) == s = Null \/ s = << >>      \* ( ! s || ! *s )

\* xstrdup(): NULL stays NULL, anything else is copied
xstrdup(s) == s

\* xstrfmtcat(p, "%s%s", a, b): append to p, allocating it when it is NULL
xstrfmtcat2(p, a, b) == (IF p = Null THEN << >> ELSE p) \o a \o b

\* The C string held in a buffer: the characters before the first NUL
CStr(buf) ==
    IF \E i \in 1..Len(buf) : buf[i] = NUL
    THEN SubSeq(buf, 1, (CHOOSE i \in 1..Len(buf) :
                            buf[i] = NUL /\ \A j \in 1..(i-1) : buf[j] # NUL) - 1)
    ELSE buf

\* isspace() in the C locale
isspace(c) == c \in {" ", "\t", "\n", "VT", "\f", "\r"}     \* "VT" is '\v'

-----------------------------------------------------------------------------
(* str_startswith, cpuinfo_features_is_str_ours *)

RECURSIVE str_startswith_loop(_, _, _, _)
\* i characters of both strings have been consumed, string_len may still be
str_startswith_loop(string, prefix, i, string_len) ==
    IF /\ string_len # 0
       /\ i < Len(string)
       /\ i < Len(prefix)
       /\ string[i+1] = prefix[i+1]
    THEN str_startswith_loop(string, prefix, i + 1, string_len - 1)
    ELSE i >= Len(prefix)                       \* return ( ! *prefix )

\* mutant: the loop's result is not looked at, any first character will do
str_startswith_anychar(string, prefix, string_len) ==
    Len(string) > 0 /\ Len(prefix) > 0 /\ string[1] = prefix[1]

str_startswith(string, prefix, string_len) ==
    str_startswith_loop(string, prefix, 0,
                        IF string_len < 0 THEN Len(string) ELSE string_len)

PFX_VENDOR == << "V", "E", "N", "D", "O", "R", ":", ":" >>
PFX_MODEL  == << "M", "O", "D", "E", "L", ":", ":" >>
PFX_CACHE  == << "C", "A", "C", "H", "E", ":", ":" >>
PFX_ISA    == << "I", "S", "A", ":", ":" >>
PFX_PCI    == << "P", "C", "I", ":", ":" >>

cpuinfo_features_is_str_ours(feature_str, feature_str_len) ==
    LET len == IF feature_str_len <= 0 THEN Len(feature_str) ELSE feature_str_len
    IN  IF str_startswith(feature_str, PFX_VENDOR, len) THEN TRUE
        ELSE IF str_startswith(feature_str, PFX_MODEL, len) THEN TRUE
        ELSE IF str_startswith(feature_str, PFX_CACHE, len) THEN TRUE
        ELSE IF str_startswith(feature_str, PFX_ISA, len) THEN TRUE
        ELSE IF have_pci /\ str_startswith(feature_str, PFX_PCI, len) THEN TRUE
        ELSE FALSE

node_features_p_changible_feature(feature) ==
    cpuinfo_features_is_str_ours(feature, -1)

-----------------------------------------------------------------------------
(* line_reader_t                                                           *)
(*                                                                         *)
(* A reader is a record.  Of the object: err_code, line_buffer (its bytes  *)
(* below used), capacity, used, chunk_size, buffer (the chunk buffer's     *)
(* bytes), buffer_ptr and buffer_end as offsets into buffer.  Of the       *)
(* stream: file (the bytes of the file), stream_pos, ferror.  Of the       *)
(* machine: read_fail_at, the offsets at which reading the device fails,   *)
(* and alloc_deny, the sizes realloc refuses.                              *)
(* ret is what the last line_reader_nextline returned, "none" before any.  *)
(***************************************************************************)

MIN_CHUNK_SIZE == 128       \* if ( chunk_size < 128 ) chunk_size = 128
INITIAL_CAPACITY == 128     \* this->capacity ? (2 * this->capacity) : 128
ENOMEM == 12
NoFault == { }

Min(a, b) == IF a <= b THEN a ELSE b

\* line_reader_create: Null when the file cannot be opened
line_reader_create(file, chunk_size, read_fail_at, alloc_deny) ==
    IF file = Null THEN Null
    ELSE [file |-> file, stream_pos |-> 0, ferror |-> FALSE,
          read_fail_at |-> read_fail_at, alloc_deny |-> alloc_deny,
          err_code |-> 0,
          line_buffer |-> << >>, capacity |-> 0, used |-> 0,
          chunk_size |-> IF chunk_size < MIN_CHUNK_SIZE THEN MIN_CHUNK_SIZE ELSE chunk_size,
          buffer |-> << >>, buffer_ptr |-> 0, buffer_end |-> 0,
          ret |-> "none"]

\* line_reader_getline, read as a C string
line_reader_getline(this) == CStr(this.line_buffer)

\* mutant: the capacity is tripled
new_capacity_tripled(this) == IF this.capacity # 0 THEN 3 * this.capacity ELSE INITIAL_CAPACITY

\* the capacity asked of realloc when used = capacity
new_capacity(this) == IF this.capacity # 0 THEN 2 * this.capacity ELSE INITIAL_CAPACITY

\* realloc(line_buffer, n) succeeds
realloc_ok(this, n) == n \notin this.alloc_deny

\* this->line_buffer[this->used++] = c
store_byte(this, c) ==
    [this EXCEPT !.line_buffer = SubSeq(this.line_buffer, 1, this.used) \o << c >>,
                 !.used = this.used + 1]

\* the bytes the copy loop moves before it next stops to look at the capacity:
\* up to the end of the chunk, to the first terminator (which is moved too),
\* and to the point where used reaches capacity
copy_run(this) ==
    LET stops == { i \in (this.buffer_ptr + 1)..this.buffer_end :
                      this.buffer[i] = NUL \/ this.buffer[i] = "\n" }
        last  == IF stops = { } THEN this.buffer_end
                 ELSE CHOOSE i \in stops : \A j \in stops : i <= j
    IN  Min(last - this.buffer_ptr, this.capacity - this.used)

RECURSIVE nextline_copy(_, _)
\* while ( ! is_done && (this->buffer_ptr < this->buffer_end) ), the bytes moved
\* between two looks at the capacity taken in one step
nextline_copy(this, is_done) ==
    IF ~ is_done /\ this.buffer_ptr < this.buffer_end
    THEN IF this.used = this.capacity
         THEN IF ~ realloc_ok(this, new_capacity(this))
              THEN [this |-> this, is_done |-> is_done, nomem |-> TRUE]
              ELSE nextline_copy([this EXCEPT !.capacity = new_capacity(this)], is_done)
         ELSE LET n == copy_run(this)
                  c == this.buffer[this.buffer_ptr + n]      \* the last byte moved
              IN  nextline_copy(
                      [this EXCEPT
                          !.line_buffer = SubSeq(this.line_buffer, 1, this.used)
                                          \o SubSeq(this.buffer, this.buffer_ptr + 1,
                                                    this.buffer_ptr + n),
                          !.used = this.used + n,
                          !.buffer_ptr = this.buffer_ptr + n],
                      c = NUL \/ c = "\n")
    ELSE [this |-> this, is_done |-> is_done, nomem |-> FALSE]

\* fread(buffer, 1, chunk_size, stream): the number of bytes it delivers
fread_count(this) ==
    LET stops == this.read_fail_at \cup { Len(this.file) }
        limit == CHOOSE i \in stops : \A j \in stops : i <= j
    IN  IF this.ferror \/ limit <= this.stream_pos THEN 0
        ELSE Min(this.chunk_size, limit - this.stream_pos)

\* the stream, and the chunk buffer, after that fread
fread(this) ==
    LET n == fread_count(this)
    IN  [this EXCEPT
            !.buffer = SubSeq(this.file, this.stream_pos + 1, this.stream_pos + n)
                       \o SubSeq(this.buffer, n + 1, Len(this.buffer)),
            !.stream_pos = this.stream_pos + n,
            !.ferror = this.ferror
                       \/ (n < this.chunk_size /\ (this.stream_pos + n) \in this.read_fail_at)]

RECURSIVE nextline_loop(_)
\* while ( 1 )
nextline_loop(this0) ==
    LET c    == nextline_copy(this0, FALSE)
        this == c.this
    IN  IF c.nomem THEN [this EXCEPT !.err_code = ENOMEM, !.ret = "NULL"]
        ELSE IF this.buffer_ptr = this.buffer_end
        THEN LET bytes_read == fread_count(this)
                 after      == [fread(this) EXCEPT !.buffer_ptr = 0]
             IN  IF bytes_read <= 0
                 THEN [after EXCEPT !.err_code = IF after.ferror THEN -1 ELSE 0,
                                    !.ret = "NULL"]
                 ELSE nextline_loop([after EXCEPT !.buffer_end = bytes_read])
        ELSE IF c.is_done
        THEN IF this.used = this.capacity /\ ~ realloc_ok(this, new_capacity(this))
             THEN [this EXCEPT !.err_code = ENOMEM, !.ret = "NULL"]
             ELSE LET grown == IF this.used = this.capacity
                               THEN [this EXCEPT !.capacity = new_capacity(this)]
                               ELSE this
                  IN  [store_byte(grown, NUL) EXCEPT !.ret = "line_buffer"]
        ELSE nextline_loop(this)

\* line_reader_nextline: ret is "line_buffer" (the line buffer is returned) or "NULL"
line_reader_nextline(this) == nextline_loop([this EXCEPT !.used = 0])

RECURSIVE trim_trailing(_, _)
\* while ( (p > e) && isspace(*(p - 1)) ): p is an offset into the line buffer
trim_trailing(this, p) ==
    IF p > 0 /\ isspace(this.line_buffer[p])
    THEN trim_trailing([this EXCEPT !.used = @ - 1,
                                    !.line_buffer = [@ EXCEPT ![p] = NUL]], p - 1)
    ELSE this

RECURSIVE leading_spaces(_, _)
\* while ( (p < e) && isspace(*p) ) p++
leading_spaces(this, p) ==
    IF p < this.used /\ isspace(this.line_buffer[p + 1]) THEN leading_spaces(this, p + 1) ELSE p

line_reader_trim(this) ==
    IF this.used # 0     \* used is not 0 only once the line buffer is allocated
    THEN LET t == trim_trailing(this, this.used - 1)
             d == leading_spaces(t, 0)
         IN  IF d > 0
             THEN [t EXCEPT !.line_buffer = SubSeq(t.line_buffer, d + 1, t.used)
                                            \o SubSeq(t.line_buffer, t.used - d + 1,
                                                      Len(t.line_buffer)),
                            !.used = t.used - d]
             ELSE t
    ELSE this

-----------------------------------------------------------------------------
(* __contains_str *)

\* strstr(haystack + p, needle): the offset of the first occurrence at or after
\* offset p, or -1
strstr(haystack, p, needle) ==
    LET n    == Len(needle)
        hits == { k \in p..(Len(haystack) - n) : SubSeq(haystack, k + 1, k + n) = needle }
    IN  IF hits = { } THEN -1
        ELSE CHOOSE k \in hits : \A j \in hits : k <= j

\* strchr(delimiter, c) != NULL, for a character c that is not NUL
strchr(delimiter, c) == \E i \in 1..Len(delimiter) : delimiter[i] = c

RECURSIVE contains_str_loop(_, _, _, _)
\* while ( *p ): p is an offset into haystack
contains_str_loop(haystack, needle, delimiter, p) ==
    IF p >= Len(haystack) THEN FALSE
    ELSE LET found     == strstr(haystack, p, needle)
             next_char == found + Len(needle)
         IN  IF found < 0 THEN FALSE
             ELSE IF next_char = Len(haystack) \/ strchr(delimiter, haystack[next_char + 1])
                  THEN TRUE
             ELSE contains_str_loop(haystack, needle, delimiter, next_char)

\* mutant: the search gives up at once
contains_str_never(haystack, needle, delimiter) == FALSE

\* __contains_str
contains_str(haystack, needle, delimiter) ==
    IF IsEmpty(haystack) THEN FALSE
    ELSE contains_str_loop(haystack, needle,
                           IF IsEmpty(delimiter) THEN << " ", "\t" >> ELSE delimiter, 0)

-----------------------------------------------------------------------------
(* strtok_r, as node_features_p_job_xlate and node_features_p_node_xlate use it *)

\* *(buf + i) == '\0'
AtNul(buf, i) == i >= Len(buf) \/ buf[i + 1] = NUL

RECURSIVE strspn(_, _, _)
\* the first offset at or after i whose character is not in delim
strspn(buf, i, delim) ==
    IF ~ AtNul(buf, i) /\ strchr(delim, buf[i + 1]) THEN strspn(buf, i + 1, delim) ELSE i

RECURSIVE strcspn(_, _, _)
\* the first offset at or after i whose character is in delim, or is the NUL
strcspn(buf, i, delim) ==
    IF ~ AtNul(buf, i) /\ ~ strchr(delim, buf[i + 1]) THEN strcspn(buf, i + 1, delim) ELSE i

\* one call: the token (Null when there is none), the buffer with the token's
\* delimiter overwritten by NUL, and the saved position
strtok_r(buf, save_ptr, delim) ==
    LET s   == strspn(buf, save_ptr, delim)
        end == strcspn(buf, s, delim)
    IN  IF AtNul(buf, s) THEN [tok |-> Null, buf |-> buf, save_ptr |-> s]
        ELSE IF AtNul(buf, end)
             THEN [tok |-> SubSeq(buf, s + 1, end), buf |-> buf, save_ptr |-> end]
        ELSE [tok |-> SubSeq(buf, s + 1, end),
              buf |-> [buf EXCEPT ![end + 1] = NUL],
              save_ptr |-> end + 1]

-----------------------------------------------------------------------------
(* node_features_p_job_xlate *)

RECURSIVE job_xlate_loop_anytoken(_, _, _, _)
\* mutant: the ownership test is lost, every token is selected
job_xlate_loop_anytoken(out_features, delim, copy, save_ptr) ==
    LET t == strtok_r(copy, save_ptr, << "&" >>)
    IN  IF t.tok = Null THEN [out_features |-> out_features, copy |-> t.buf]
        ELSE job_xlate_loop_anytoken(xstrfmtcat2(out_features, delim, t.tok), << "," >>,
                                     t.buf, t.save_ptr)

RECURSIVE job_xlate_loop(_, _, _, _)
\* while ( (tokptr = strtok_r(tokarg1, "&", &save_ptr)) )
job_xlate_loop(out_features, delim, copy, save_ptr) ==
    LET t == strtok_r(copy, save_ptr, << "&" >>)
    IN  IF t.tok = Null THEN [out_features |-> out_features, copy |-> t.buf]
        ELSE IF cpuinfo_features_is_str_ours(t.tok, -1)
             THEN job_xlate_loop(xstrfmtcat2(out_features, delim, t.tok), << "," >>,
                                 t.buf, t.save_ptr)
        ELSE job_xlate_loop(out_features, delim, t.buf, t.save_ptr)

node_features_p_job_xlate(job_features) ==
    IF IsEmpty(job_features) THEN Null
    ELSE LET r == job_xlate_loop(Null, << >>, xstrdup(job_features), 0)
         IN  IF r.out_features = Null THEN CStr(r.copy) ELSE r.out_features

-----------------------------------------------------------------------------
(* node_features_p_node_xlate *)

RECURSIVE node_xlate_loop(_, _, _, _)
\* while ( (tokptr = strtok_r(tokarg1, ",", &saveptr)) )
node_xlate_loop(out_features, delim, orig_copy, saveptr) ==
    LET t == strtok_r(orig_copy, saveptr, << "," >>)
    IN  IF t.tok = Null THEN out_features
        ELSE IF /\ ~ cpuinfo_features_is_str_ours(t.tok, -1)
                /\ ~ contains_str(out_features, t.tok, << "," >>)
             THEN node_xlate_loop(xstrfmtcat2(out_features, delim, t.tok), << "," >>,
                                  t.buf, t.save_ptr)
        ELSE node_xlate_loop(out_features, delim, t.buf, t.save_ptr)

\* mutant: no short-circuit, the union is always computed
node_xlate_always_union(new_features, orig_features, avail_features) ==
    IF orig_features = Null THEN xstrdup(new_features)
    ELSE node_xlate_loop(IF new_features = Null THEN << >> ELSE new_features,
                         IF IsEmpty(new_features) THEN << >> ELSE << "," >>,
                         xstrdup(orig_features), 0)

\* mutant: with no available features, nothing of orig_features is retained
node_xlate_only_available(new_features, orig_features, avail_features) ==
    IF IsEmpty(new_features) THEN xstrdup(orig_features)
    ELSE IF IsEmpty(orig_features) THEN xstrdup(new_features)
    ELSE IF IsEmpty(avail_features) THEN xstrdup(new_features)
    ELSE node_xlate_loop(xstrdup(new_features), << "," >>, xstrdup(orig_features), 0)

node_features_p_node_xlate(new_features, orig_features, avail_features) ==
    IF IsEmpty(new_features) THEN xstrdup(orig_features)
    ELSE IF IsEmpty(orig_features) THEN xstrdup(new_features)
    ELSE LET out_features == xstrdup(new_features)
         IN  node_xlate_loop(out_features,
                             IF out_features # << >> THEN << "," >> ELSE << >>,
                             xstrdup(orig_features), 0)

-----------------------------------------------------------------------------
(* Generated inputs *)

Repeat(c, n) == [i \in 1..n |-> c]

RECURSIVE Join(_, _)
\* the tokens of ts, written one after the other with d between them
Join(ts, d) ==
    IF Len(ts) = 0 THEN << >>
    ELSE IF Len(ts) = 1 THEN ts[1]
    ELSE ts[1] \o << d >> \o Join(Tail(ts), d)

SeqsUpTo(S, n) == UNION { [1..k -> S] : k \in 0..n }

HasPrefix(s, p) == Len(s) >= Len(p) /\ SubSeq(s, 1, Len(p)) = p

Prefixes == { PFX_VENDOR, PFX_MODEL, PFX_CACHE, PFX_ISA, PFX_PCI }

\* the prefixes the build owns
OwnedPrefixes ==
    { PFX_VENDOR, PFX_MODEL, PFX_CACHE, PFX_ISA } \cup (IF have_pci THEN { PFX_PCI } ELSE { })

Lower(c) ==
    CASE c = "V" -> "v" [] c = "M" -> "m" [] c = "C" -> "c"
      [] c = "I" -> "i" [] c = "P" -> "p" [] OTHER -> c

\* a prefix, a prefix short of its last colon, a prefix in the wrong case, nothing
PrefixVariants ==
    Prefixes
    \cup { SubSeq(p, 1, Len(p) - 1) : p \in Prefixes }
    \cup { << Lower(p[1]) >> \o Tail(p) : p \in Prefixes }
    \cup { << >> }

\* feature names: x* (prefix variant) a*
FeatureNames ==
    { Repeat("x", i) \o m \o Repeat("a", j) :
        i \in 0..MaxSuffix, j \in 0..MaxSuffix, m \in PrefixVariants }

-----------------------------------------------------------------------------
\* feature tokens of the reconciler's lists: owned, foreign, one foreign token
\* that ends in another, one owned only by a build with PCI detection, and the
\* empty token (two commas in a row, a leading or a trailing comma)
XlTokens ==
    { PFX_ISA \o << "a" >>, << "g" >>, << "x", "g" >>, PFX_PCI \o << "g" >>, << >> }

FeatureLists == { Join(ts, ",") : ts \in SeqsUpTo(XlTokens, MaxTokens) } \cup { Null }

AvailLists == { Null, << "g" >> }

\* tokens of a job's feature expression
JxTokens ==
    { PFX_ISA \o << "a" >>, PFX_MODEL \o << "m" >>, PFX_PCI \o << "p" >>,
      << "g" >>, << "h" >>, << >> }

JobExpressions == { Join(ts, "&") : ts \in SeqsUpTo(JxTokens, MaxTokens) } \cup { Null }

\* lines of a file: empty, short, with blanks around, as long as a chunk less
\* one or two bytes, and with a NUL byte inside
LineBodies ==
    { << >>, << "a" >>, << " ", "a", "\t" >>,
      Repeat("x", MIN_CHUNK_SIZE - 2), Repeat("x", MIN_CHUNK_SIZE - 1),
      << "a", NUL, "b" >> }

\* files of up to MaxLines lines, the last one with or without its newline;
\* Null is a file that cannot be opened
Files ==
    { Join(ls, "\n") \o end : ls \in SeqsUpTo(LineBodies, MaxLines) \ { << >> },
                               end \in { << >>, << "\n" >> } }
    \cup { << >>, Null }

ChunkSizes == { 0, MIN_CHUNK_SIZE + 1, MIN_CHUNK_SIZE + 2 }

\* the device fails after the first byte, or never
ReadFaults == { NoFault, { 1 } }

\* realloc refuses to double the initial line buffer, or refuses nothing
AllocDenials == { NoFault, { 2 * INITIAL_CAPACITY } }

-----------------------------------------------------------------------------
(* Idle values of the parts a specification does not exercise *)

CfIdle == [pc |-> "idle", feature |-> << >>, ret |-> FALSE]

XlIdle == [pc |-> "idle", new_features |-> Null, orig_features |-> Null,
           avail_features |-> Null, out_features |-> Null, prev_out |-> Null]

JxIdle == [pc |-> "idle", job_features |-> Null, out_features |-> Null]

NoReader == [ret |-> "none"]

RdIdle == [pc |-> "idle", file |-> Null, chunk_size |-> 0, read_fail_at |-> NoFault,
           alloc_deny |-> NoFault, this |-> NoReader, raw |-> << >>, lines |-> << >>,
           nulls |-> 0]

\* cpuinfo_features_init(): memset(cif, 0, sizeof(*cif))
cpuinfo_features_init ==
    [vendor_id |-> Null, model_name |-> Null, cache_kb |-> 0, flags |-> 0]

PvIdle == [pc |-> "idle", parser |-> "", text |-> << >>, tail |-> << >>,
           cif |-> cpuinfo_features_init, before |-> cpuinfo_features_init,
           ret |-> "none"]

NsIdle == [pc |-> "idle"]

ThIdle == [pc |-> "idle"]

CliIdle == [pc |-> "idle"]

-----------------------------------------------------------------------------
(* node_features_p_changible_feature as a step *)

CfInit ==
    /\ have_pci \in BOOLEAN
    /\ cf \in [pc : {"call"}, feature : FeatureNames, ret : {FALSE}]
    /\ xl = XlIdle /\ jx = JxIdle /\ rd = RdIdle /\ pv = PvIdle /\ ns = NsIdle
    /\ th = ThIdle /\ cli = CliIdle

ChangibleFeature ==
    /\ cf.pc = "call"
    /\ cf' = [cf EXCEPT !.pc = "done",
                        !.ret = node_features_p_changible_feature(cf.feature)]
    /\ UNCHANGED <<have_pci, xl, jx, rd, pv, ns, th, cli>>

CfSpec == CfInit /\ [][ChangibleFeature]_vars

-----------------------------------------------------------------------------
(* node_features_p_node_xlate as steps: the host's call, the same call with *)
(* another avail_features, and the result reconciled with itself            *)

XlInit ==
    /\ have_pci \in BOOLEAN
    /\ xl \in [pc : {"call"}, new_features : FeatureLists, orig_features : FeatureLists,
               avail_features : AvailLists, out_features : {Null}, prev_out : {Null}]
    /\ cf = CfIdle /\ jx = JxIdle /\ rd = RdIdle /\ pv = PvIdle /\ ns = NsIdle
    /\ th = ThIdle /\ cli = CliIdle

NodeXlate ==
    /\ xl.pc = "call"
    /\ xl' = [xl EXCEPT !.pc = "done",
                        !.out_features = node_features_p_node_xlate(
                            xl.new_features, xl.orig_features, xl.avail_features)]
    /\ UNCHANGED <<have_pci, cf, jx, rd, pv, ns, th, cli>>

NodeXlateOtherAvail ==
    /\ xl.pc = "done"
    /\ \E avail \in AvailLists \ { xl.avail_features } :
          xl' = [xl EXCEPT !.pc = "other_avail",
                           !.avail_features = avail,
                           !.prev_out = xl.out_features,
                           !.out_features = node_features_p_node_xlate(
                               xl.new_features, xl.orig_features, avail)]
    /\ UNCHANGED <<have_pci, cf, jx, rd, pv, ns, th, cli>>

NodeXlateAgain ==
    /\ xl.pc = "done"
    /\ xl' = [xl EXCEPT !.pc = "again",
                        !.new_features = xl.out_features,
                        !.orig_features = xl.out_features,
                        !.prev_out = xl.out_features,
                        !.out_features = node_features_p_node_xlate(
                            xl.out_features, xl.out_features, xl.avail_features)]
    /\ UNCHANGED <<have_pci, cf, jx, rd, pv, ns, th, cli>>

XlNext == NodeXlate \/ NodeXlateOtherAvail \/ NodeXlateAgain

XlSpec == XlInit /\ [][XlNext]_vars

-----------------------------------------------------------------------------
(* node_features_p_job_xlate as a step *)

JxInit ==
    /\ have_pci \in BOOLEAN
    /\ jx \in [pc : {"call"}, job_features : JobExpressions, out_features : {Null}]
    /\ cf = CfIdle /\ xl = XlIdle /\ rd = RdIdle /\ pv = PvIdle /\ ns = NsIdle
    /\ th = ThIdle /\ cli = CliIdle

JobXlate ==
    /\ jx.pc = "call"
    /\ jx' = [jx EXCEPT !.pc = "done",
                        !.out_features = node_features_p_job_xlate(jx.job_features)]
    /\ UNCHANGED <<have_pci, cf, xl, rd, pv, ns, th, cli>>

JxSpec == JxInit /\ [][JobXlate]_vars

-----------------------------------------------------------------------------
(* A line reader in the hands of a caller that, like cpuinfo_parse_file,    *)
(* trims every line it gets; raw and lines are the caller's record of the   *)
(* lines as returned and as trimmed                                         *)

RdInit ==
    /\ have_pci = FALSE
    /\ rd \in [pc : {"create"}, file : Files, chunk_size : ChunkSizes,
               read_fail_at : ReadFaults, alloc_deny : AllocDenials,
               this : {NoReader}, raw : {<< >>}, lines : {<< >>}, nulls : {0}]
    /\ cf = CfIdle /\ xl = XlIdle /\ jx = JxIdle /\ pv = PvIdle /\ ns = NsIdle
    /\ th = ThIdle /\ cli = CliIdle

LineReaderCreate ==
    /\ rd.pc = "create"
    /\ rd' = IF rd.file = Null
             THEN [rd EXCEPT !.pc = "nofile"]
             ELSE [rd EXCEPT !.pc = "ready",
                             !.this = line_reader_create(rd.file, rd.chunk_size,
                                                         rd.read_fail_at, rd.alloc_deny)]
    /\ UNCHANGED <<have_pci, cf, xl, jx, pv, ns, th, cli>>

LineReaderNextline ==
    /\ rd.pc \in {"ready", "end"}
    /\ rd.nulls < MaxNulls
    /\ LET next == line_reader_nextline(rd.this)
       IN  rd' = IF next.ret = "NULL"
                 THEN [rd EXCEPT !.pc = "end", !.this = next, !.nulls = @ + 1]
                 ELSE [rd EXCEPT !.pc = "line", !.this = next,
                                 !.raw = Append(@, line_reader_getline(next))]
    /\ UNCHANGED <<have_pci, cf, xl, jx, pv, ns, th, cli>>

LineReaderTrim ==
    /\ rd.pc = "line"
    /\ LET trimmed == line_reader_trim(rd.this)
       IN  rd' = [rd EXCEPT !.pc = "ready", !.this = trimmed,
                            !.lines = Append(@, line_reader_getline(trimmed))]
    /\ UNCHANGED <<have_pci, cf, xl, jx, pv, ns, th, cli>>

LineReaderFree ==
    /\ rd.pc \in {"ready", "end"}
    /\ rd' = [rd EXCEPT !.pc = "freed", !.this = NoReader]
    /\ UNCHANGED <<have_pci, cf, xl, jx, pv, ns, th, cli>>

RdNext == LineReaderCreate \/ LineReaderNextline \/ LineReaderTrim \/ LineReaderFree

RdSpec == RdInit /\ [][RdNext]_vars

-----------------------------------------------------------------------------
(* What the claims speak of: whole tokens of a list, ownership by prefix *)

RECURSIVE SplitTokens(_, _)
\* the non-empty maximal runs of s without the separator d, in order
SplitTokens(s, d) ==
    IF s = << >> THEN << >>
    ELSE IF s[1] = d THEN SplitTokens(Tail(s), d)
    ELSE LET stops == { i \in 1..Len(s) : s[i] = d }
             n     == IF stops = { } THEN Len(s) + 1
                      ELSE CHOOSE i \in stops : \A j \in stops : i <= j
         IN  << SubSeq(s, 1, n - 1) >> \o SplitTokens(SubSeq(s, n, Len(s)), d)

TokenSet(s, d) ==
    IF s = Null THEN { } ELSE { SplitTokens(s, d)[i] : i \in 1..Len(SplitTokens(s, d)) }

IsOwned(t) == \E p \in OwnedPrefixes : HasPrefix(t, p)

HasAnyPrefix(t) == \E p \in Prefixes : HasPrefix(t, p)

OwnedTokens(s, d) == SelectSeq(SplitTokens(s, d), IsOwned)

-----------------------------------------------------------------------------
(* Claims about node_features_p_node_xlate (XlSpec) *)

\* C1: with new_features and orig_features both non-empty, every token of
\* orig_features that starts with none of the five prefixes is a whole token of
\* the result.
C1_ForeignTokensKept ==
    (xl.pc = "done" /\ ~ IsEmpty(xl.new_features) /\ ~ IsEmpty(xl.orig_features))
        => \A t \in TokenSet(xl.orig_features, ",") :
              ~ HasAnyPrefix(t) => t \in TokenSet(xl.out_features, ",")

\* C2: for all inputs, absent and empty ones included, the result has no token
\* of orig_features that is owned and is not a token of new_features.
C2_StaleOwnedDropped ==
    xl.pc = "done"
        => \A t \in TokenSet(xl.orig_features, ",") :
              (IsOwned(t) /\ t \notin TokenSet(xl.new_features, ","))
                  => t \notin TokenSet(xl.out_features, ",")

C4_AvailIgnored ==
    xl.pc = "other_avail" => xl.out_features = xl.prev_out

C4_Witness ==
    /\ xl.pc = "other_avail"
    /\ xl.avail_features = Null
    /\ xl.new_features = PFX_ISA \o << "a" >>
    /\ xl.orig_features = << "g" >>
    /\ xl.out_features = Join(<< PFX_ISA \o << "a" >>, << "g" >> >>, ",")

\* C5: a result R reconciled with itself, xlate(R, R, avail), is R again, also
\* when R is absent or empty.
C5_Idempotent ==
    xl.pc = "again" => xl.out_features = xl.prev_out

C5_Witness ==
    /\ xl.pc = "again"
    /\ xl.prev_out = Join(<< PFX_ISA \o << "a" >>, << "g" >>, << "x", "g" >> >>, ",")
    /\ xl.out_features = xl.prev_out

-----------------------------------------------------------------------------
(* Claims about node_features_p_job_xlate (JxSpec) *)

HasOwnedToken(s) == s # Null /\ Len(OwnedTokens(s, "&")) > 0

\* C6 as stated: an expression with an owned token gives its owned tokens, in
\* order, joined by the ampersand.
C6_OwnedJoinedByAmpersand ==
    (jx.pc = "done" /\ HasOwnedToken(jx.job_features))
        => jx.out_features = Join(OwnedTokens(jx.job_features, "&"), "&")

\* C6 as amended: an expression with an owned token gives its owned tokens, in
\* order, joined by commas.
C6_OwnedJoinedByComma ==
    (jx.pc = "done" /\ HasOwnedToken(jx.job_features))
        => jx.out_features = Join(OwnedTokens(jx.job_features, "&"), ",")

C6_Witness ==
    /\ jx.pc = "done"
    /\ jx.job_features = Join(<< PFX_ISA \o << "a" >>, PFX_MODEL \o << "m" >> >>, "&")
    /\ jx.out_features = Join(<< PFX_ISA \o << "a" >>, PFX_MODEL \o << "m" >> >>, ",")

\* C7: a present expression with no owned token, the empty one included, is
\* returned as it is, character for character.
C7_UnownedUnchanged ==
    (jx.pc = "done" /\ jx.job_features # Null /\ ~ HasOwnedToken(jx.job_features))
        => jx.out_features = jx.job_features

-----------------------------------------------------------------------------
(* Claims about cpuinfo_features_is_str_ours (CfSpec) *)

\* C8: the answer is true exactly for a name that starts, in this case, with
\* VENDOR::, MODEL::, CACHE::, ISA:: or, in a build with PCI detection, PCI::.
C8_OursIffPrefix ==
    cf.pc = "done" => (cf.ret <=> IsOwned(cf.feature))

C8_Witness ==
    /\ cf.pc = "done"
    /\ have_pci
    /\ cf.feature = PFX_PCI \o << "a" >>
    /\ cf.ret

-----------------------------------------------------------------------------
(* Claims about the line reader (RdSpec) *)

\* a run the machine does not disturb: no read error, no failed realloc
NoFaults == rd.read_fail_at = NoFault /\ rd.alloc_deny = NoFault

\* the reader has just reported 'no more lines' for the first time
FirstEnd == rd.pc = "end" /\ rd.nulls = 1

RECURSIVE ReadLines(_, _)
\* the lines a caller collects from a reader, trimming each, until the first NULL
ReadLines(this, lines) ==
    LET next == line_reader_nextline(this)
    IN  IF next.ret = "NULL" THEN lines
        ELSE LET trimmed == line_reader_trim(next)
             IN  ReadLines(trimmed, Append(lines, line_reader_getline(trimmed)))

LinesRead(file, chunk_size) ==
    ReadLines(line_reader_create(file, chunk_size, NoFault, NoFault), << >>)

RECURSIVE FileLines(_)
\* the lines a stream is made of: each ended by a newline, the last one by a
\* newline or by the end of the stream
FileLines(s) ==
    IF s = << >> THEN << >>
    ELSE LET stops == { i \in 1..Len(s) : s[i] = "\n" }
         IN  IF stops = { } THEN << s >>
             ELSE LET n == CHOOSE i \in stops : \A j \in stops : i <= j
                  IN  << SubSeq(s, 1, n - 1) >> \o FileLines(SubSeq(s, n + 1, Len(s)))

WithoutNewline(line) ==
    IF Len(line) > 0 /\ line[Len(line)] = "\n" THEN SubSeq(line, 1, Len(line) - 1) ELSE line

IsText(s) == \A i \in 1..Len(s) : s[i] # NUL

\* C9: the sequence of lines got by line_reader_nextline and line_reader_trim
\* is the same whatever the chunk size.
C9_ChunkSizeInvariant ==
    (FirstEnd /\ NoFaults)
        => \A chunk_size \in ChunkSizes : LinesRead(rd.file, chunk_size) = rd.lines

\* C10: a stream made of N lines gives exactly those N lines, one per call and
\* in order, before 'no more lines', its last line included whether a newline
\* or only the end of the stream ends it.
C10_EveryLineReturned ==
    (FirstEnd /\ NoFaults /\ IsText(rd.file))
        => /\ Len(rd.raw) = Len(FileLines(rd.file))
           /\ \A i \in 1..Len(rd.raw) : WithoutNewline(rd.raw[i]) = FileLines(rd.file)[i]

-----------------------------------------------------------------------------
(* cpuinfo_flags_t, cpuinfo_flags_strings, cpuinfo_parse_flags *)

cpuinfo_flags_START == 0
cpuinfo_flags_MAX   == 13

\* cpuinfo_flags_strings[i] is element i + 1
cpuinfo_flags_strings ==
    << << "s", "s", "e" >>,
       << "s", "s", "e", "2" >>,
       << "s", "s", "s", "e", "3" >>,
       << "s", "s", "e", "4", "_", "1" >>,
       << "s", "s", "e", "4", "_", "2" >>,
       << "a", "v", "x" >>,
       << "a", "v", "x", "2" >>,
       << "a", "v", "x", "5", "1", "2", "f" >>,
       << "a", "v", "x", "5", "1", "2", "d", "q" >>,
       << "a", "v", "x", "5", "1", "2", "c", "d" >>,
       << "a", "v", "x", "5", "1", "2", "b", "w" >>,
       << "a", "v", "x", "5", "1", "2", "v", "l" >>,
       << "a", "v", "x", "5", "1", "2", "_", "v", "n", "n", "i" >> >>

\* mask = 1 << i, for a bit index of the enumeration
Mask(i) == 2 ^ i

\* (flags & mask) == mask, for a one-bit mask
HasBits(flags, mask) == (flags \div mask) % 2 = 1

\* flags |= mask, for a one-bit mask
OrBits(flags, mask) == IF HasBits(flags, mask) THEN flags ELSE flags + mask

RECURSIVE parse_flags_loop(_, _, _, _)
\* while ( i < cpuinfo_flags_MAX ); mask stays below 2^13, far from its width
parse_flags_loop(flags, text, i, mask) ==
    IF i < cpuinfo_flags_MAX
    THEN parse_flags_loop(IF contains_str(text, cpuinfo_flags_strings[i + 1], Null)
                          THEN OrBits(flags, mask) ELSE flags,
                          text, i + 1, mask * 2)
    ELSE flags

\* cpuinfo_parse_flags: the record after the call and the value returned
cpuinfo_parse_flags(cif, text) ==
    [cif |-> [cif EXCEPT !.flags = parse_flags_loop(0, text, cpuinfo_flags_START, 1)],
     ret |-> "true"]

-----------------------------------------------------------------------------
(* <ctype.h> in the C locale, strtod, cpuinfo_parse_cache_size *)

LOWERCASE == << "a", "b", "c", "d", "e", "f", "g", "h", "i", "j", "k", "l", "m", "n", "o", "p", "q", "r", "s", "t", "u", "v", "w", "x", "y", "z" >>
UPPERCASE == << "A", "B", "C", "D", "E", "F", "G", "H", "I", "J", "K", "L", "M", "N", "O", "P", "Q", "R", "S", "T", "U", "V", "W", "X", "Y", "Z" >>
DIGITS    == << "0", "1", "2", "3", "4", "5", "6", "7", "8", "9" >>

IndexIn(chars, c) == CHOOSE i \in 1..Len(chars) : chars[i] = c

islower(c) == strchr(LOWERCASE, c)
isupper(c) == strchr(UPPERCASE, c)
isalpha(c) == islower(c) \/ isupper(c)
isdigit(c) == strchr(DIGITS, c)
isalnum(c) == isalpha(c) \/ isdigit(c)
isxdigit(c) == isdigit(c) \/ c \in { "a", "b", "c", "d", "e", "f", "A", "B", "C", "D", "E", "F" }
toupper(c) == IF islower(c) THEN UPPERCASE[IndexIn(LOWERCASE, c)] ELSE c

\* the value of a digit, decimal or hexadecimal
DigitValue(c) ==
    IF isdigit(c) THEN IndexIn(DIGITS, c) - 1
    ELSE IndexIn(UPPERCASE, toupper(c)) + 9

\* *(text + p): the character at offset p of a C string, its NUL included
CharAt(text, p) == IF p < Len(text) THEN text[p + 1] ELSE NUL

\* the offset of the first character at or after offset p that is not in the
\* class: while ( *p && class(*p) ) p++
RunEnd(text, p, class(_)) ==
    CHOOSE q \in p..Len(text) :
        /\ \A k \in p..(q - 1) : class(text[k + 1])
        /\ q = Len(text) \/ ~class(text[q + 1])

RECURSIVE NumberValue(_, _)
\* the number written by a run of digits in the given base
NumberValue(digits, base) ==
    IF digits = << >> THEN 0
    ELSE NumberValue(SubSeq(digits, 1, Len(digits) - 1), base) * base
         + DigitValue(digits[Len(digits)])

\* strtod(text, &endp) for the unsigned decimal forms (digits, fraction,
\* exponent) and the hexadecimal integers: the value as the exact fraction
\* num / den and endp as an offset; endp = 0 when nothing was converted.
\* Every value the model feeds it is exact in a double.
strtod(text) ==
    LET start  == RunEnd(text, 0, isspace)
        is_hex == /\ CharAt(text, start) = "0"
                  /\ CharAt(text, start + 1) \in { "x", "X" }
                  /\ isxdigit(CharAt(text, start + 2))
        int_end  == RunEnd(text, start, isdigit)
        has_dot  == CharAt(text, int_end) = "."
        frac_end == IF has_dot THEN RunEnd(text, int_end + 1, isdigit) ELSE int_end
        n_frac   == IF has_dot THEN frac_end - (int_end + 1) ELSE 0
        mantissa == NumberValue(SubSeq(text, start + 1, int_end), 10) * (10 ^ n_frac)
                    + (IF has_dot
                       THEN NumberValue(SubSeq(text, int_end + 2, frac_end), 10) ELSE 0)
        has_e    == CharAt(text, frac_end) \in { "e", "E" }
        sign     == CharAt(text, frac_end + 1)
        exp_from == IF has_e /\ sign \in { "+", "-" } THEN frac_end + 2 ELSE frac_end + 1
        exp_end  == IF has_e /\ exp_from <= Len(text)
                    THEN RunEnd(text, exp_from, isdigit) ELSE exp_from
        has_exp  == has_e /\ exp_end > exp_from
        exponent == IF has_exp THEN NumberValue(SubSeq(text, exp_from + 1, exp_end), 10)
                    ELSE 0
    IN  IF is_hex
        THEN LET hex_end == RunEnd(text, start + 2, isxdigit)
             IN  [num |-> NumberValue(SubSeq(text, start + 3, hex_end), 16), den |-> 1,
                  endp |-> hex_end]
        ELSE IF (int_end - start) + n_frac = 0
        THEN [num |-> 0, den |-> 1, endp |-> 0]
        ELSE [num  |-> mantissa * (IF has_exp /\ sign # "-" THEN 10 ^ exponent ELSE 1),
              den  |-> (10 ^ n_frac) * (IF has_exp /\ sign = "-" THEN 10 ^ exponent ELSE 1),
              endp |-> IF has_exp THEN exp_end ELSE frac_end]

KIBI == 1024

\* mutant: the unit does not scale the value
cache_size_unit_noscale(val, text, endp) ==
    [num |-> val.num, den |-> val.den,
     endp |-> IF toupper(CharAt(text, endp)) \in { "G", "M", "K" } THEN endp + 1 ELSE endp]

\* the first switch of cpuinfo_parse_cache_size, its fall-through included:
\* the scaled value and the advanced endp
cache_size_unit(val, text, endp) ==
    TheOne({ IF c = "G" THEN [num |-> v.num * KIBI * KIBI, den |-> v.den, endp |-> p + 1]
             ELSE IF c = "M" THEN [num |-> v.num * KIBI, den |-> v.den, endp |-> p + 1]
             ELSE IF c = "K" THEN [num |-> v.num, den |-> v.den, endp |-> p + 1]
             ELSE IF c = "B" THEN [num |-> v.num, den |-> v.den * KIBI, endp |-> p]
             ELSE [num |-> v.num, den |-> v.den, endp |-> p] :
             v \in { val }, p \in { endp }, c \in { toupper(CharAt(text, endp)) } })

\* (unsigned int)numerical_val for a value that is not negative and below
\* 2^32: the fraction is discarded
to_unsigned(val) == val.num \div val.den

\* cpuinfo_parse_cache_size: the record after the call and the value returned
cpuinfo_parse_cache_size(cif, text) ==
    TheOne({ IF val.endp > 0
             THEN TheOne({ IF toupper(CharAt(text, unit.endp)) \in { "B", NUL }
                           THEN [cif |-> [cif EXCEPT !.cache_kb = to_unsigned(unit)],
                                 ret |-> "true"]
                           ELSE [cif |-> cif, ret |-> "false"] :
                           unit \in { cache_size_unit(
                                          val, text, RunEnd(text, val.endp, isspace)) } })
             ELSE [cif |-> cif, ret |-> "false"] :
             val \in { strtod(text) } })

-----------------------------------------------------------------------------
(* cpuinfo_parse_model_name *)

GOLD == << "G", "o", "l", "d", " " >>
EPYC == << "E", "P", "Y", "C", " " >>

alpha_dash(c) == isalpha(c) \/ c = "-"
alnum_dash(c) == isalnum(c) \/ c = "-"

\* if ( *p == ' ' ) *p = '_' over the copied characters
underscored(str) == [i \in 1..Len(str) |-> IF str[i] = " " THEN "_" ELSE str[i]]

NO_MATCH == -1
FAULT    == -2

\* mutant: the generic attempt does not look for the version suffix
model_match_noversion(mem, s, with_version) ==
    LET e1 == RunEnd(mem, s + 1, alpha_dash)
        e2 == RunEnd(mem, e1 + 1, alnum_dash)
    IN  IF e1 >= Len(mem) THEN FAULT
        ELSE IF ~isdigit(mem[e1 + 1]) THEN NO_MATCH
        ELSE IF e2 >= Len(mem) THEN FAULT
        ELSE e2

\* One attempt of the pattern at offset s of the memory mem, where *s is
\* alphanumeric: the offset e just past the match, NO_MATCH when no digit
\* follows the letters, FAULT when the attempt reads past the known memory.
model_match(mem, s, with_version) ==
    LET e1 == RunEnd(mem, s + 1, alpha_dash)
        e2 == RunEnd(mem, e1 + 1, alnum_dash)
    IN  IF e1 >= Len(mem) THEN FAULT
        ELSE IF ~isdigit(mem[e1 + 1]) THEN NO_MATCH
        ELSE IF e2 >= Len(mem) THEN FAULT
        ELSE IF ~with_version \/ mem[e2 + 1] # " " THEN e2
        ELSE IF e2 + 1 >= Len(mem) THEN FAULT
        ELSE IF mem[e2 + 2] # "v" THEN e2
        ELSE IF e2 + 2 >= Len(mem) THEN FAULT
        ELSE IF ~isdigit(mem[e2 + 3]) THEN e2
        ELSE LET e3 == RunEnd(mem, e2 + 2, isdigit)
             IN  IF e3 >= Len(mem) THEN FAULT ELSE e3

\* the model name is replaced by the characters [from, e) of mem
model_name_store(cif, mem, from, e) ==
    [cif |-> [cif EXCEPT !.model_name = underscored(SubSeq(mem, from + 1, e))],
     ret |-> "true"]

\* the process dies of the read (or goes on with whatever it read: the tail
\* of the memory is the model's choice of what lies behind the string)
model_name_fault(cif) == [cif |-> cif, ret |-> "fault"]

RECURSIVE model_name_scan(_, _, _)
\* while ( *s ) of the generic check, s an offset into mem.  The inner
\* while ( ! isalnum(*s) ) s++ does not stop at a NUL.
model_name_scan(cif, mem, s) ==
    IF s >= Len(mem) THEN model_name_fault(cif)
    ELSE IF mem[s + 1] = NUL THEN [cif |-> cif, ret |-> "false"]
    ELSE LET alnums == { q \in s..(Len(mem) - 1) : isalnum(mem[q + 1]) }
             s1     == CHOOSE q \in alnums : \A k \in alnums : q <= k
             e      == model_match(mem, s1, TRUE)
         IN  IF alnums = { } THEN model_name_fault(cif)
             ELSE IF e = FAULT THEN model_name_fault(cif)
             ELSE IF e = NO_MATCH THEN model_name_scan(cif, mem, s1 + 1)
             ELSE model_name_store(cif, mem, s1, e)

\* mutant: a lead-in is never looked for
model_name_lead_in_none(text) == -1

\* strstr(text, "Gold ") and, when that finds nothing, strstr(text, "EPYC "):
\* the offset of prefix, or -1
model_name_lead_in(text) ==
    IF strstr(text, 0, GOLD) >= 0 THEN strstr(text, 0, GOLD) ELSE strstr(text, 0, EPYC)

\* cpuinfo_parse_model_name on the string text, which lies in memory followed
\* by its NUL and then by the bytes of tail
cpuinfo_parse_model_name(cif, text, tail) ==
    LET mem    == text \o << NUL >> \o tail
        prefix == model_name_lead_in(text)
        s      == prefix + Len(GOLD)
        e      == IF prefix >= 0 /\ isalnum(CharAt(text, s))
                  THEN model_match(mem, s, FALSE) ELSE NO_MATCH
    IN  IF e >= 0 THEN model_name_store(cif, mem, prefix, e)
        ELSE model_name_scan(cif, mem, 0)

-----------------------------------------------------------------------------
(* Calls of the parser callbacks on generated values *)

\* the record before a call: fresh, or filled by earlier lines
FilledRecord ==
    [vendor_id |-> << "v" >>, model_name |-> << "m", "1" >>, cache_kb |-> 7,
     flags |-> Mask(cpuinfo_flags_MAX) - 1]

PriorRecords == { cpuinfo_features_init, FilledRecord }

\* flag tokens: the vocabulary, and vocabulary tokens inside longer tokens as
\* their suffix, their prefix and their middle
FlagTokens ==
    { cpuinfo_flags_strings[i] : i \in 1..cpuinfo_flags_MAX }
    \cup { << "x", "s", "s", "e" >>,
           << "m", "i", "s", "a", "l", "i", "g", "n", "s", "s", "e" >>,
           << "s", "s", "e", "4", "_", "2", "x", "y", "z" >>,
           << "x", "a", "v", "x", "2", "y" >> }

FlagTexts ==
    { Join(ts, d) : ts \in SeqsUpTo(FlagTokens, MaxFlags), d \in { " ", "\t" } }

CacheNumbers == { << "0" >>, << "8" >>, << "5", "1", "2" >>, << "2", "0", "4", "7" >> }

CacheGaps == { << >>, << " " >>, << " ", "\t" >> }

\* what follows the digits and the gap: the units, known and unknown, in
\* either case, with and without the B, and characters that continue a number
CacheUnits ==
    { << >>,
      << "K" >>,
      << "K", "B" >>,
      << "k" >>,
      << "k", "b" >>,
      << "K", "b" >>,
      << "M" >>,
      << "M", "B" >>,
      << "m" >>,
      << "m", "b" >>,
      << "G" >>,
      << "G", "B" >>,
      << "g" >>,
      << "B" >>,
      << "b" >>,
      << "X" >>,
      << "K", "X" >>,
      << "M", "K" >>,
      << "B", "X" >>,
      << "K", "B", "X" >>,
      << "e" >>,
      << "e", "1" >>,
      << "e", "-", "1" >>,
      << "E", "2" >>,
      << "." >>,
      << ".", "5" >>,
      << ".", "5", "M" >>,
      << "x" >>,
      << "x", "1" >>,
      << "%" >>,
      << "K", " ", "B" >> }

\* the values of /proc/cpuinfo are far below the width of unsigned int, and so
\* are these: the largest is 2047 GB
CacheTexts ==
    { n \o g \o u : n \in CacheNumbers, g \in CacheGaps, u \in CacheUnits }
    \cup { << "4", "6", "0", "8", "0" >> \o g \o u :
              g \in CacheGaps, u \in { v \in CacheUnits : toupper(CharAt(v, 0)) # "G" } }
    \cup { << >>, << "K" >>, << " ", "8", "K" >> }

ModelAlphabet == { "a", "1", "-", " ", "v", "." }

ModelTexts ==
    SeqsUpTo(ModelAlphabet, MaxModel)
    \cup { << "I", "n", "t", "e", "l", "(", "R", ")", " ", "X", "e", "o", "n", "(", "R", ")", " ", "C", "P", "U", " ", "E", "5", "-", "2", "6", "9", "5", " ", "v", "4", " ", "@", " ", "2", ".", "1", "0", "G", "H", "z" >>,
           << "A", "M", "D", " ", "E", "P", "Y", "C", " ", "7", "5", "0", "2", " ", "3", "2", "-", "C", "o", "r", "e", " ", "P", "r", "o", "c", "e", "s", "s", "o", "r" >>,
           << "I", "n", "t", "e", "l", "(", "R", ")", " ", "X", "e", "o", "n", "(", "R", ")", " ", "G", "o", "l", "d", " ", "6", "2", "3", "0", " ", "C", "P", "U", " ", "@", " ", "2", ".", "1", "0", "G", "H", "z" >>,
           << "I", "n", "t", "e", "l", "(", "R", ")" >>,
           << "G", "o", "l", "d", " ", "6", "2", "4", "0", " ", "v", "2" >>,
           << "G", "o", "l", "d", " ", "E", "P", "Y", "C", " ", "7", "5" >>,
           << "E", "P", "Y", "C", " ", "7", " ", "G", "o", "l", "d", " ", "6", "a", "-", "1" >>,
           << "E", "P", "Y", "C", " ", "x", " ", "E", "P", "Y", "C", " ", "7", "5" >>,
           << "X", "e", "o", "n", " ", "G", "o", "l", "d" >>,
           << "E", "5", "-", "2", "6", " ", "v" >>,
           << "G", "o", "l", "d", " " >> }

\* what lies in memory behind the terminating NUL of a model name value:
\* nothing that can be read, or what an earlier, longer line left there
MemoryTails == { << >>, << NUL, " " >>, << "y", "7", NUL >> }

PvCalls ==
    { [parser |-> "flags", text |-> t, tail |-> << >>] : t \in FlagTexts }
    \cup { [parser |-> "cache size", text |-> t, tail |-> << >>] : t \in CacheTexts }
    \cup { [parser |-> "model name", text |-> t, tail |-> m] :
              t \in ModelTexts, m \in MemoryTails }

PvInit ==
    /\ have_pci = FALSE
    /\ pv \in { [pc |-> "call", parser |-> c.parser, text |-> c.text, tail |-> c.tail,
                 cif |-> r, before |-> r, ret |-> "none"] :
                c \in PvCalls, r \in PriorRecords }
    /\ cf = CfIdle /\ xl = XlIdle /\ jx = JxIdle /\ rd = RdIdle /\ ns = NsIdle
    /\ th = ThIdle /\ cli = CliIdle

PvReturn(r) ==
    /\ pv' = [pv EXCEPT !.pc = "done", !.cif = r.cif, !.ret = r.ret]
    /\ UNCHANGED <<have_pci, cf, xl, jx, rd, ns, th, cli>>

ParseFlags ==
    /\ pv.pc = "call" /\ pv.parser = "flags"
    /\ PvReturn(cpuinfo_parse_flags(pv.cif, pv.text))

ParseCacheSize ==
    /\ pv.pc = "call" /\ pv.parser = "cache size"
    /\ PvReturn(cpuinfo_parse_cache_size(pv.cif, pv.text))

ParseModelName ==
    /\ pv.pc = "call" /\ pv.parser = "model name"
    /\ PvReturn(cpuinfo_parse_model_name(pv.cif, pv.text, pv.tail))

PvNext == ParseFlags \/ ParseCacheSize \/ ParseModelName

PvSpec == PvInit /\ [][PvNext]_vars

-----------------------------------------------------------------------------
(* Claims about the parser callbacks (PvSpec) *)

PvDone(parser) == pv.pc = "done" /\ pv.parser = parser

\* the fields of the record other than the named one are as before the call
OnlyChanged(field) ==
    \A f \in { "vendor_id", "model_name", "cache_kb", "flags" } \ { field } :
        pv.cif[f] = pv.before[f]

\* the whole tokens of a string: the maximal runs of characters that are not
\* a space or a tab
WholeTokens(text) ==
    LET blank(k) == k < 1 \/ k > Len(text) \/ text[k] \in { " ", "\t" }
    IN  { SubSeq(text, x[1], x[2]) :
            x \in { y \in (1..Len(text)) \X (1..Len(text)) :
                       /\ y[1] <= y[2]
                       /\ blank(y[1] - 1) /\ blank(y[2] + 1)
                       /\ \A k \in y[1]..y[2] : ~blank(k) } }

\* C11: after cpuinfo_parse_flags, bit i of the bitmap is set if and only if
\* the i-th vocabulary token is a whole token of the value, bounded on both
\* sides by a space, a tab or an end of the string.
C11_WholeTokenBits ==
    PvDone("flags") =>
        \A i \in cpuinfo_flags_START..(cpuinfo_flags_MAX - 1) :
            HasBits(pv.cif.flags, Mask(i))
                <=> cpuinfo_flags_strings[i + 1] \in WholeTokens(pv.text)

\* the value of a cache size line as the claim reads it: the digits of n, a
\* gap of whitespace, and the rest
CacheDigits == SubSeq(pv.text, 1, RunEnd(pv.text, 0, isdigit))
CacheN      == NumberValue(CacheDigits, 10)
CacheGapEnd == RunEnd(pv.text, Len(CacheDigits), isspace)
CacheRest   ==
    [i \in 1..(Len(pv.text) - CacheGapEnd) |-> toupper(pv.text[CacheGapEnd + i])]

\* -1 for a failure, -2 where the claim says nothing
CacheExpected ==
    LET rest == CacheRest
    IN  IF rest \in { << >>, << "K" >>, << "K", "B" >> } THEN CacheN
        ELSE IF rest \in { << "M" >>, << "M", "B" >> } THEN CacheN * 1024
        ELSE IF rest \in { << "G" >>, << "G", "B" >> } THEN CacheN * 1024 * 1024
        ELSE IF rest = << "B" >> THEN CacheN \div 1024
        ELSE IF rest[1] \notin { "K", "M", "G", "B" } THEN -1
        ELSE IF rest[1] # "B" /\ Len(rest) >= 2 /\ rest[2] # "B" THEN -1
        ELSE -2

CacheAsExpected ==
    /\ CacheExpected = -1 => pv.ret = "false" /\ pv.cif = pv.before
    /\ CacheExpected >= 0 =>
          pv.ret = "true" /\ pv.cif.cache_kb = CacheExpected /\ OnlyChanged("cache_kb")

\* the rest goes on with the number, as strtod reads numbers: a fraction, an
\* exponent, or the digits of a hexadecimal number after 0x
CacheRestIsNumber ==
    /\ CacheGapEnd = Len(CacheDigits)
    /\ LET c(k) == CharAt(pv.text, CacheGapEnd + k)
       IN  \/ c(0) = "."
           \/ c(0) \in { "e", "E" } /\ isdigit(c(1))
           \/ c(0) \in { "e", "E" } /\ c(1) \in { "+", "-" } /\ isdigit(c(2))
           \/ CacheDigits = << "0" >> /\ c(0) \in { "x", "X" } /\ isxdigit(c(1))

\* C12 (as stated): for a value n, whitespace, unit, cpuinfo_parse_cache_size
\* stores n for K, KB and no unit, n*1024 for M and MB, n*1024*1024 for G and
\* GB, n/1024 rounded down for B, and fails, leaving the record unchanged, for
\* any other first unit character and for K, M or G followed by a character
\* other than B.
C12_CacheSizeTable ==
    PvDone("cache size") /\ Len(CacheDigits) > 0 => CacheAsExpected

\* C12 (amended): the same, for every value in which the characters after the
\* digits do not go on with the number (a fraction, an exponent, hexadecimal
\* digits after 0x).
C12_CacheSizeTableOfIntegers ==
    PvDone("cache size") /\ Len(CacheDigits) > 0 /\ ~CacheRestIsNumber => CacheAsExpected

C12_Witness ==
    /\ PvDone("cache size")
    /\ pv.text = << "8", " ", "M", "B" >>
    /\ pv.before.cache_kb = 7
    /\ pv.cif.cache_kb = 8192

\* the ends e of the matches of the generic pattern that start at offset s:
\* one alphanumeric, letters and dashes, one digit, alphanumerics and dashes
PatternEnds(text, s) ==
    { e \in (s + 2)..Len(text) :
        /\ isalnum(text[s + 1])
        /\ \E d \in (s + 1)..(e - 1) :
              /\ \A k \in (s + 1)..(d - 1) : alpha_dash(text[k + 1])
              /\ isdigit(text[d + 1])
              /\ \A k \in (d + 1)..(e - 1) : alnum_dash(text[k + 1]) }

Largest(S) == CHOOSE e \in S : \A x \in S : x <= e
Least(S)   == CHOOSE e \in S : \A x \in S : e <= x

\* the offset of the lead-in of a model name value: its first "Gold ", or its
\* first "EPYC " when it has no "Gold ", or -1
LeadIn(text) ==
    LET at(lit) == { k \in 0..(Len(text) - Len(lit)) : SubSeq(text, k + 1, k + Len(lit)) = lit }
    IN  IF at(GOLD) # { } THEN Least(at(GOLD))
        ELSE IF at(EPYC) # { } THEN Least(at(EPYC))
        ELSE -1

\* the pattern matches directly after the lead-in
AnchoredMatch(text) ==
    LeadIn(text) >= 0 /\ PatternEnds(text, LeadIn(text) + Len(GOLD)) # { }

MatchStarts(text) == { s \in 0..(Len(text) - 1) : PatternEnds(text, s) # { } }

\* the end of a match, moved past a directly following " v<digits>"
WithVersion(text, e) ==
    IF CharAt(text, e) = " " /\ CharAt(text, e + 1) = "v" /\ isdigit(CharAt(text, e + 2))
    THEN RunEnd(text, e + 2, isdigit)
    ELSE e

\* C13: when the text directly after the lead-in ("Gold ", or "EPYC " in a
\* value without "Gold ") matches the pattern, cpuinfo_parse_model_name stores
\* the text from the start of the lead-in to the end of the match, spaces
\* turned into '_', without a version suffix, in place of the earlier name.
C13_AnchoredModelName ==
    PvDone("model name") /\ AnchoredMatch(pv.text) =>
        /\ pv.ret = "true"
        /\ pv.cif.model_name =
              underscored(SubSeq(pv.text, LeadIn(pv.text) + 1,
                                 Largest(PatternEnds(pv.text, LeadIn(pv.text) + Len(GOLD)))))
        /\ OnlyChanged("model_name")

C13_Witness ==
    /\ PvDone("model name")
    /\ pv.text = << "A", "M", "D", " ", "E", "P", "Y", "C", " ", "7", "5", "0", "2", " ", "3", "2", "-", "C", "o", "r", "e", " ", "P", "r", "o", "c", "e", "s", "s", "o", "r" >>
    /\ pv.before.model_name = << "m", "1" >>
    /\ pv.cif.model_name = << "E", "P", "Y", "C", "_", "7", "5", "0", "2" >>

\* C14: when there is no lead-in, or the text after it does not match, and the
\* pattern matches somewhere, cpuinfo_parse_model_name stores the leftmost
\* match in the whole value, with a directly following " v<digits>", spaces
\* turned into '_'.
C14_GenericModelName ==
    PvDone("model name") /\ ~AnchoredMatch(pv.text) /\ MatchStarts(pv.text) # { } =>
        LET s == Least(MatchStarts(pv.text))
        IN  /\ pv.ret = "true"
            /\ pv.cif.model_name =
                  underscored(SubSeq(pv.text, s + 1,
                                     WithVersion(pv.text, Largest(PatternEnds(pv.text, s)))))
            /\ OnlyChanged("model_name")

C14_Witness ==
    /\ PvDone("model name")
    /\ pv.text = << "I", "n", "t", "e", "l", "(", "R", ")", " ", "X", "e", "o", "n", "(", "R", ")", " ", "C", "P", "U", " ", "E", "5", "-", "2", "6", "9", "5", " ", "v", "4", " ", "@", " ", "2", ".", "1", "0", "G", "H", "z" >>
    /\ pv.cif.model_name = << "E", "5", "-", "2", "6", "9", "5", "_", "v", "4" >>

\* C15: when the pattern matches nowhere in the value, cpuinfo_parse_model_name
\* returns failure and leaves the whole record as it was.
C15_NoMatchFails ==
    PvDone("model name") /\ MatchStarts(pv.text) = { } =>
        pv.ret = "false" /\ pv.cif = pv.before

-----------------------------------------------------------------------------
(* cpuinfo_feature_parsers, cpuinfo_parse_line, cpuinfo_parse_file *)

tolower(c) == IF isupper(c) THEN LOWERCASE[IndexIn(UPPERCASE, c)] ELSE c

\* strncasecmp(s1, s2, n) == 0, for strings that both have n characters
strncasecmp_equal(s1, s2, n) == \A i \in 1..n : tolower(s1[i]) = tolower(s2[i])

\* cpuinfo_parse_strdup: *s = strdup(text) on the field at arg_offset
cpuinfo_parse_strdup(arg_offset, cif, text) ==
    [cif |-> [cif EXCEPT ![arg_offset] = text], ret |-> "true"]

\* the registry, without its terminating record
cpuinfo_feature_parsers ==
    << [feature_str |-> << "c", "a", "c", "h", "e", " ", "s", "i", "z", "e" >>,
        parse_cb |-> "cpuinfo_parse_cache_size", arg_offset |-> ""],
       [feature_str |-> << "f", "l", "a", "g", "s" >>,
        parse_cb |-> "cpuinfo_parse_flags", arg_offset |-> ""],
       [feature_str |-> << "m", "o", "d", "e", "l", " ", "n", "a", "m", "e" >>,
        parse_cb |-> "cpuinfo_parse_model_name", arg_offset |-> ""],
       [feature_str |-> << "v", "e", "n", "d", "o", "r", "_", "i", "d" >>,
        parse_cb |-> "cpuinfo_parse_strdup", arg_offset |-> "vendor_id"] >>

\* mutant: the lengths are not compared, a registered keyword matches when the
\* name starts with it
parsers_lookup_prefix(feature_str) ==
    LET hits == { i \in 1..Len(cpuinfo_feature_parsers) :
                    LET parser_feature_len == Len(cpuinfo_feature_parsers[i].feature_str)
                    IN  /\ parser_feature_len <= Len(feature_str)
                        /\ strncasecmp_equal(cpuinfo_feature_parsers[i].feature_str,
                                             feature_str, parser_feature_len) }
    IN  IF hits = { } THEN 0 ELSE CHOOSE i \in hits : \A j \in hits : i <= j

\* cpuinfo_feature_parsers_lookup on the characters [feature_start,
\* feature_end): the index of the first matching record, 0 for NULL
cpuinfo_feature_parsers_lookup(feature_str) ==
    LET hits == { i \in 1..Len(cpuinfo_feature_parsers) :
                    LET parser_feature_len == Len(cpuinfo_feature_parsers[i].feature_str)
                    IN  /\ parser_feature_len = Len(feature_str)
                        /\ strncasecmp_equal(cpuinfo_feature_parsers[i].feature_str,
                                             feature_str, Len(feature_str)) }
    IN  IF hits = { } THEN 0 ELSE CHOOSE i \in hits : \A j \in hits : i <= j

\* parser->parse_cb(parser, cif, text)
parse_cb(parser, cif, text, tail) ==
    IF parser.parse_cb = "cpuinfo_parse_cache_size" THEN cpuinfo_parse_cache_size(cif, text)
    ELSE IF parser.parse_cb = "cpuinfo_parse_flags" THEN cpuinfo_parse_flags(cif, text)
    ELSE IF parser.parse_cb = "cpuinfo_parse_model_name"
    THEN cpuinfo_parse_model_name(cif, text, tail)
    ELSE cpuinfo_parse_strdup(parser.arg_offset, cif, text)

\* the offset of the first character at or after p that is a colon, or the
\* end of the line: while ( *line && *line != ':' ) line++
colon_from(line, p) ==
    CHOOSE q \in p..Len(line) :
        /\ q = Len(line) \/ line[q + 1] = ":"
        /\ \A k \in p..(q - 1) : line[k + 1] # ":"

\* feature_end: back from the colon over whitespace, not beyond feature_start
feature_end_from(line, feature_start, colon) ==
    CHOOSE q \in feature_start..colon :
        /\ \A k \in q..(colon - 1) : isspace(line[k + 1])
        /\ q = feature_start \/ ~isspace(line[q])

\* cpuinfo_parse_line on the C string line, which lies in memory followed by
\* its NUL and the bytes of tail: the record after the call and the value
\* returned
cpuinfo_parse_line(cif, line, tail) ==
    LET feature_start == RunEnd(line, 0, isspace)
        colon         == colon_from(line, feature_start)
        feature_end   == feature_end_from(line, feature_start, colon)
        parser        == cpuinfo_feature_parsers_lookup(
                             SubSeq(line, feature_start + 1, feature_end))
        value         == RunEnd(line, colon + 1, isspace)
    IN  IF feature_start = Len(line) THEN [cif |-> cif, ret |-> "false"]
        ELSE IF colon = Len(line) THEN [cif |-> cif, ret |-> "false"]
        ELSE IF parser = 0 THEN [cif |-> cif, ret |-> "false"]
        ELSE parse_cb(cpuinfo_feature_parsers[parser], cif,
                      SubSeq(line, value + 1, Len(line)), tail)

RECURSIVE parse_file_loop(_, _, _, _)
RECURSIVE parse_file_body(_, _, _, _, _)
\* while ( (line = line_reader_nextline(line_reader)) ): the reader after the
\* call, trimmed unless NULL was returned.  heap is what lies in memory
\* behind the bytes the reader has written to its line buffer.  log keeps,
\* for each line handed to cpuinfo_parse_line, the line, the record before
\* and after, and the value returned.
parse_file_loop(cif, line_reader, heap, log) ==
    TheOne({ IF this.ret = "NULL" THEN [cif |-> cif, ret |-> "true", log |-> log]
             ELSE parse_file_body(cif, this, line_reader_getline(this), heap, log) :
             this \in { IF next.ret = "NULL" THEN next ELSE line_reader_trim(next) :
                        next \in { line_reader_nextline(line_reader) } } })

\* the body of the loop for the trimmed line
parse_file_body(cif, line_reader, line, heap, log) ==
    IF line = << >> THEN [cif |-> cif, ret |-> "true", log |-> log]
    ELSE TheOne({
             IF parsed.ret = "fault"
             THEN [cif |-> cif, ret |-> "fault",
                   log |-> Append(log, [line |-> line, before |-> cif,
                                        after |-> parsed.cif, ret |-> parsed.ret])]
             ELSE parse_file_loop(parsed.cif, line_reader, heap,
                                  Append(log, [line |-> line, before |-> cif,
                                               after |-> parsed.cif, ret |-> parsed.ret])) :
             parsed \in { cpuinfo_parse_line(
                              cif, line,
                              SubSeq(line_reader.line_buffer, Len(line) + 2,
                                     Len(line_reader.line_buffer)) \o heap) } })

\* mutant: true is returned although the file could not be opened
cpuinfo_parse_file_true(cif, file, heap) ==
    IF file = Null
    THEN [cif |-> cif, ret |-> "true", log |-> << >>]
    ELSE parse_file_loop(cif, line_reader_create(file, 0, NoFault, NoFault), heap, << >>)

\* cpuinfo_parse_file on a file of the given bytes (Null: it cannot be
\* opened): the record after the call, the value returned ("fault" when the
\* process dies in cpuinfo_parse_model_name), and the log
cpuinfo_parse_file(cif, file, heap) ==
    IF file = Null          \* line_reader_create returns NULL
    THEN [cif |-> cif, ret |-> "false", log |-> << >>]
    ELSE parse_file_loop(cif, line_reader_create(file, 0, NoFault, NoFault), heap, << >>)

-----------------------------------------------------------------------------
(* node_features_p_node_state, node_features_p_reconfig, fini *)

RECURSIVE utoa(_)
\* "%u"
utoa(n) == IF n < 10 THEN << DIGITS[n + 1] >> ELSE utoa(n \div 10) \o << DIGITS[(n % 10) + 1] >>

SUFFIX_KB == << "K", "B" >>

\* delim after something was appended to add_features
COMMA == << "," >>

RECURSIVE node_state_flags(_, _, _, _)
\* while ( i < cpuinfo_flags_MAX ): add_features and delim
node_state_flags(add_features, delim, flags, i) ==
    IF i < cpuinfo_flags_MAX
    THEN IF HasBits(flags, Mask(i))
         THEN node_state_flags(xstrfmtcat2(add_features, delim,
                                           PFX_ISA \o cpuinfo_flags_strings[i + 1]),
                               COMMA, flags, i + 1)
         ELSE node_state_flags(add_features, delim, flags, i + 1)
    ELSE add_features

\* mutant: the cache size is rendered when it is not 0, as
\* cpuinfo_features_summarize does
node_state_cache_if_size(cif) == cif.cache_kb # 0

\* the condition on the line that renders CACHE::
node_state_cache_if(cif) == cif.model_name # Null

\* lines 2459-2474: add_features as rendered from the record, after
\* pci_device_lookup has left pci_features (or NULL) in it
node_state_render(cif, pci_features) ==
    LET d0 == IF ~IsEmpty(pci_features) THEN COMMA ELSE << >>
        a1 == IF cif.vendor_id # Null
              THEN xstrfmtcat2(pci_features, d0, PFX_VENDOR \o cif.vendor_id)
              ELSE pci_features
        d1 == IF cif.vendor_id # Null THEN COMMA ELSE d0
        a2 == IF cif.model_name # Null
              THEN xstrfmtcat2(a1, d1, PFX_MODEL \o cif.model_name)
              ELSE a1
        d2 == IF cif.model_name # Null THEN COMMA ELSE d1
        a3 == IF node_state_cache_if(cif)
              THEN xstrfmtcat2(a2, d2, PFX_CACHE \o utoa(cif.cache_kb) \o SUFFIX_KB)
              ELSE a2
        d3 == IF node_state_cache_if(cif) THEN COMMA ELSE d2
    IN  node_state_flags(a3, d3, cif.flags, cpuinfo_flags_START)

\* mutant: the output is overwritten
node_state_append_overwrite(mode, add_features) == xstrdup(add_features)

\* lines 2476-2480 and 2481-2485: one output after add_features was added
node_state_append(mode, add_features) ==
    IF mode # Null THEN xstrfmtcat2(mode, COMMA, add_features) ELSE xstrdup(add_features)

-----------------------------------------------------------------------------
(* The plugin's cached record and its callers (NsSpec) *)

\* The lines of the first record of a cpuinfo file, in the order the kernel
\* writes them: a line without a colon that fills a chunk of the reader but
\* for its newline, vendor_id (with a value or without), model name, cache
\* size, flags; each may be missing.
LongLines   == { << >>, << Repeat("x", MIN_CHUNK_SIZE - 1) >> }
VendorLines == { << >>, << << "v", "e", "n", "d", "o", "r", "_", "i", "d", "\t", ":", " ", "A" >> >>, << << "v", "e", "n", "d", "o", "r", "_", "i", "d", "\t", ":" >> >> }
ModelLines  == { << >>, << << "m", "o", "d", "e", "l", " ", "n", "a", "m", "e", "\t", ":", " ", "E", "5", "-", "2", " ", "v", "4" >> >> }
CacheLines  == { << >>, << << "c", "a", "c", "h", "e", " ", "s", "i", "z", "e", "\t", ":", " ", "8", " ", "K", "B" >> >> }
FlagsLines  == { << >>, << << "f", "l", "a", "g", "s", "\t", "\t", ":", " ", "s", "s", "e", " ", "a", "v", "x" >> >> }

RecordLines ==
    { l \o v \o m \o c \o f :
        l \in LongLines, v \in VendorLines, m \in ModelLines, c \in CacheLines,
        f \in FlagsLines }

\* a line put between the lines of the record: empty, blank, of an unknown
\* field, without a colon, of a field whose name is a registered keyword
\* without its last character, with one character more, in another case
ExtraLines ==
    { << >>, << " ", "\t" >>,
      << "b", "o", "g", "o", "m", "i", "p", "s", "\t", ":", " ", "1" >>,
      << "f", "l", "a", "g", "s" >>,
      << "f", "l", "a", "g", "\t", "\t", ":", " ", "a", "v", "x", "2" >>,
      << "f", "l", "a", "g", "s", "s", "\t", "\t", ":", " ", "a", "v", "x", "2" >>,
      << "F", "L", "A", "G", "S", "\t", "\t", ":", " ", "a", "v", "x", "2" >> }

InsertAt(ls, k, l) == SubSeq(ls, 1, k) \o << l >> \o SubSeq(ls, k + 1, Len(ls))

\* what follows the lines and their newlines: nothing, the empty line that
\* ends the record, or that and the record of a second processor
CpuinfoEnds ==
    { << >>, << "\n" >>, << "\n" >> \o << "v", "e", "n", "d", "o", "r", "_", "i", "d", "\t", ":", " ", "B", "\n", "\n" >> }

\* Null is a file that cannot be opened
CpuinfoFiles ==
    { Join(ls, "\n") \o << "\n" >> \o end :
        ls \in (RecordLines \ { << >> })
               \cup UNION { { InsertAt(r, k, x) : k \in 0..Len(r), x \in ExtraLines } :
                             r \in RecordLines },
        end \in CpuinfoEnds }
    \cup { << >>, Null }

\* *avail_modes and *current_mode before the first call
OutputPairs ==
    { << Null, << "b" >> >>, << << "a" >>, Null >> }

\* what pci_device_lookup leaves in add_features: NULL when it fails or finds
\* no known device, and always in a build without PCI detection
PciFeatures ==
    IF have_pci THEN { Null, PFX_PCI \o << "G", "P", "U", ":", ":", "T", "4" >> } ELSE { Null }

NsInit ==
    /\ have_pci \in BOOLEAN
    /\ ns \in { [pc |-> "run", calls |-> 0, file |-> f,
                 is_node_features_inited |-> FALSE,
                 node_features |-> cpuinfo_features_init,
                 avail_modes |-> o[1], current_mode |-> o[2],
                 prev_avail_modes |-> o[1], prev_current_mode |-> o[2],
                 pci_features |-> Null, add_features |-> Null, log |-> << >>,
                 source |-> Null] :
                f \in CpuinfoFiles, o \in OutputPairs }
    /\ cf = CfIdle /\ xl = XlIdle /\ jx = JxIdle /\ rd = RdIdle /\ pv = PvIdle
    /\ th = ThIdle /\ cli = CliIdle

\* The outcomes of cpuinfo_parse_file(&node_features, "/proc/cpuinfo") after
\* cpuinfo_features_init: one, unless cpuinfo_parse_model_name reads behind
\* its string, and then one for each content of the memory there.
ParseOutcomes(file) ==
    TheOne({ IF parsed.ret = "fault"
             THEN { cpuinfo_parse_file(cpuinfo_features_init, file, heap) :
                      heap \in MemoryTails }
             ELSE { parsed } :
             parsed \in { cpuinfo_parse_file(cpuinfo_features_init, file, << >>) } })

\* mutant: the file is parsed on every call
node_state_parse_if_always(inited) == TRUE

\* if ( ! is_node_features_inited )
node_state_parse_if(inited) == ~inited

\* node_features_p_node_state(&avail_modes, &current_mode) with both pointers
\* non-NULL (with a NULL pointer the call returns at once and changes
\* nothing); the body runs with config_mutex held
NodeState ==
    /\ ns.pc = "run" /\ ns.calls < MaxCalls
    /\ \E parsed \in IF node_state_parse_if(ns.is_node_features_inited)
                     THEN ParseOutcomes(ns.file)
                     ELSE { [cif |-> ns.node_features, ret |-> "true", log |-> ns.log] } :
       \E pci_features \in PciFeatures :
          LET add_features == IF parsed.ret = "true"
                              THEN node_state_render(parsed.cif, pci_features)
                              ELSE Null
              called == [ns EXCEPT !.calls = @ + 1,
                                   !.prev_avail_modes = ns.avail_modes,
                                   !.prev_current_mode = ns.current_mode,
                                   !.source =
                                       IF node_state_parse_if(ns.is_node_features_inited)
                                       THEN ns.file ELSE @,
                                   !.log = parsed.log]
          IN  ns' = IF parsed.ret = "fault"
                    THEN [called EXCEPT !.pc = "crashed"]
                    ELSE [called EXCEPT
                            !.is_node_features_inited = (parsed.ret = "true"),
                            !.node_features = parsed.cif,
                            !.pci_features = pci_features,
                            !.add_features = add_features,
                            !.avail_modes =
                                IF ~IsEmpty(add_features)
                                THEN node_state_append(ns.avail_modes, add_features)
                                ELSE ns.avail_modes,
                            !.current_mode =
                                IF ~IsEmpty(add_features)
                                THEN node_state_append(ns.current_mode, add_features)
                                ELSE ns.current_mode]
    /\ UNCHANGED <<have_pci, cf, xl, jx, rd, pv, th, cli>>

\* if ( is_node_features_inited ): cpuinfo_features_reset, and
\* is_node_features_inited = false
node_features_reset(state) ==
    IF state.is_node_features_inited
    THEN [state EXCEPT !.is_node_features_inited = FALSE,
                       !.node_features = cpuinfo_features_init]
    ELSE state

\* node_features_p_reconfig
Reconfig ==
    /\ ns.pc = "run"
    /\ ns' = node_features_reset(ns)
    /\ UNCHANGED <<have_pci, cf, xl, jx, rd, pv, th, cli>>

\* fini
Fini ==
    /\ ns.pc = "run"
    /\ ns' = [node_features_reset(ns) EXCEPT !.pc = "unloaded"]
    /\ UNCHANGED <<have_pci, cf, xl, jx, rd, pv, th, cli>>

\* what /proc/cpuinfo holds after it has changed
OtherFile == << "v", "e", "n", "d", "o", "r", "_", "i", "d", "\t", ":", " ", "B", "\n", "f", "l", "a", "g", "s", "\t", "\t", ":", " ", "a", "v", "x", "2", "\n", "\n" >>

\* the content of /proc/cpuinfo changes (or the file can be opened at last),
\* once, between the first call of node_features_p_node_state and the second
Rewrite ==
    /\ ns.pc = "run" /\ ns.calls = 1 /\ ns.file # OtherFile
    /\ ns' = [ns EXCEPT !.file = OtherFile]
    /\ UNCHANGED <<have_pci, cf, xl, jx, rd, pv, th, cli>>

NsNext == NodeState \/ Reconfig \/ Fini \/ Rewrite

NsSpec == NsInit /\ [][NsNext]_vars

-----------------------------------------------------------------------------
(* Claims about cpuinfo_parse_file and node_features_p_node_state (NsSpec) *)

\* node_features_p_node_state has run and the cached record is that of a
\* parse that was reported successful
Cached == ns.pc = "run" /\ ns.calls > 0 /\ ns.is_node_features_inited

\* a line without its leading and trailing whitespace
TrimLine(line) ==
    LET first == RunEnd(line, 0, isspace)
        stops == { e \in first..Len(line) :
                     /\ \A k \in (e + 1)..Len(line) : isspace(line[k])
                     /\ e = first \/ ~isspace(line[e]) }
    IN  SubSeq(line, first + 1, CHOOSE e \in stops : TRUE)

\* the lines of a stream before its first line that is empty after trimming
FirstRecord(file) ==
    LET lines  == FileLines(file)
        blanks == { i \in 1..Len(lines) : TrimLine(lines[i]) = << >> }
    IN  IF blanks = { } THEN lines
        ELSE SubSeq(lines, 1, (CHOOSE i \in blanks : \A j \in blanks : i <= j) - 1)

\* the stream has a line that is empty after trimming
HasEmptyLine(file) == \E i \in 1..Len(FileLines(file)) : TrimLine(FileLines(file)[i]) = << >>

\* the stream up to and including its first empty line
FirstRecordStream(file) ==
    Join(FirstRecord(file), "\n")
    \o (IF FirstRecord(file) = << >> THEN << >> ELSE << "\n" >>) \o << "\n" >>

\* C16: cpuinfo_parse_file consumes only the first record: once a line that
\* is empty after trimming has been read no later line is parsed, so the
\* record is that of the stream that ends with its first empty line.
C16_FirstRecordOnly ==
    (Cached /\ HasEmptyLine(ns.source)) =>
        LET first == cpuinfo_parse_file(cpuinfo_features_init,
                                        FirstRecordStream(ns.source), << >>)
        IN  ns.node_features = first.cif

\* the four registered keywords
RegisteredKeywords ==
    { << "c", "a", "c", "h", "e", " ", "s", "i", "z", "e" >>,
      << "f", "l", "a", "g", "s" >>,
      << "m", "o", "d", "e", "l", " ", "n", "a", "m", "e" >>,
      << "v", "e", "n", "d", "o", "r", "_", "i", "d" >> }

HasColon(line) == \E i \in 1..Len(line) : line[i] = ":"

\* the text before the first colon of a line, trailing whitespace removed
KeywordOf(line) ==
    LET colon == CHOOSE i \in 1..Len(line) :
                     line[i] = ":" /\ \A j \in 1..(i - 1) : line[j] # ":"
        ends  == { e \in 0..(colon - 1) :
                     /\ \A k \in (e + 1)..(colon - 1) : isspace(line[k])
                     /\ e = 0 \/ ~isspace(line[e]) }
    IN  SubSeq(line, 1, CHOOSE e \in ends : TRUE)

Lowered(str) == [i \in 1..Len(str) |-> tolower(str[i])]

\* the line has no colon, or its keyword is none of the registered ones
Unrecognised(line) ==
    ~HasColon(line) \/ Lowered(KeywordOf(line)) \notin RegisteredKeywords

\* the lines the reader returns for a stream, trimmed, before the first
\* empty one
ReaderRecord(file) ==
    LET lines  == LinesRead(file, 0)
        blanks == { i \in 1..Len(lines) : lines[i] = << >> }
    IN  IF blanks = { } THEN lines
        ELSE SubSeq(lines, 1, (CHOOSE i \in blanks : \A j \in blanks : i <= j) - 1)

\* C17: a line without a colon, or whose text before the first colon is not
\* (case-insensitively, at the same length) one of the four registered
\* keywords, leaves all four fields of the record unchanged, and
\* cpuinfo_parse_file continues with the next line: every line the reader
\* returns before the first empty one is handed to cpuinfo_parse_line.
C17_UnrecognisedLinesSkipped ==
    Cached =>
        /\ \A i \in 1..Len(ns.log) :
              Unrecognised(ns.log[i].line)
              => ns.log[i].after = ns.log[i].before /\ ns.log[i].ret = "false"
        /\ [i \in 1..Len(ns.log) |-> ns.log[i].line] = ReaderRecord(ns.source)

\* a line with a colon and the keyword "flagss" was skipped after a line had
\* filled a field, and the line after it was parsed and filled another
C17_Witness ==
    /\ Cached
    /\ \E i \in 1..(Len(ns.log) - 1) :
          /\ HasColon(ns.log[i].line)
          /\ KeywordOf(ns.log[i].line) = << "f", "l", "a", "g", "s", "s" >>
          /\ ns.log[i].before # cpuinfo_features_init
          /\ ns.log[i].after = ns.log[i].before
          /\ ns.log[i + 1].after # ns.log[i + 1].before

\* the names of the bits set in flags, in the order of the enumeration
IsaItems(flags) ==
    LET set == SelectSeq([i \in 1..Len(cpuinfo_flags_strings) |-> i],
                         LAMBDA i : (flags \div (2 ^ (i - 1))) % 2 = 1)
    IN  [k \in 1..Len(set) |-> << "I", "S", "A", ":", ":" >> \o cpuinfo_flags_strings[set[k]]]

\* the feature strings the claim lists for a record, in its order
RecordItems(cif) ==
    (IF cif.vendor_id # Null THEN << << "V", "E", "N", "D", "O", "R", ":", ":" >> \o cif.vendor_id >> ELSE << >>)
    \o (IF cif.model_name # Null THEN << << "M", "O", "D", "E", "L", ":", ":" >> \o cif.model_name >> ELSE << >>)
    \o (IF cif.model_name # Null
        THEN << << "C", "A", "C", "H", "E", ":", ":" >> \o utoa(cif.cache_kb) \o << "K", "B" >> >>
        ELSE << >>)
    \o IsaItems(cif.flags)

\* the strings joined by single commas, behind what the PCI lookup has left
JoinedItems(pci_features, items) ==
    LET all == (IF pci_features = Null THEN << >> ELSE << pci_features >>) \o items
    IN  IF all = << >> THEN Null ELSE Join(all, ",")

\* C18: the feature list node_features_p_node_state renders from the cached
\* record is, in this order, VENDOR::<vendor_id> if vendor_id is present,
\* MODEL::<model_name> if model_name is present, CACHE::<cache_kb>KB if and
\* only if model_name is present, ISA::<token> for each set flag bit in
\* enumeration order, joined by single commas.
C18_RenderOrder ==
    Cached => ns.add_features = JoinedItems(ns.pci_features, RecordItems(ns.node_features))

\* a record with a model name and no cache size renders CACHE::0KB between
\* MODEL:: and the ISA:: strings
C18_Witness ==
    /\ Cached
    /\ ns.node_features.cache_kb = 0
    /\ ns.add_features = << "V", "E", "N", "D", "O", "R", ":", ":", "A", ",", "M", "O", "D", "E", "L", ":", ":", "E", "5", "-", "2", "_", "v", "4", ",", "C", "A", "C", "H", "E", ":", ":", "0", "K", "B", ",", "I", "S", "A", ":", ":", "s", "s", "e", ",", "I", "S", "A", ":", ":", "a", "v", "x" >>

\* a feature string that ends with its "::": KIND:: and no VALUE
EmptyValue(item) ==
    Len(item) >= 2 /\ SubSeq(item, Len(item) - 1, Len(item)) = << ":", ":" >>

\* C19: no feature string rendered after extraction has an empty VALUE part:
\* a field whose line carries an empty value ("vendor_id :") is treated as
\* absent and skipped, never rendered as "VENDOR::".
C19_NoEmptyValue ==
    (Cached /\ ns.add_features # Null) =>
        LET items == SplitTokens(ns.add_features, ",")
        IN  \A k \in 1..Len(items) : ~EmptyValue(items[k])

\* node_features_p_node_state has returned
Returned == ns.pc # "crashed" /\ ns.calls > 0

\* an output after F was added to what it held before the call
Appended(before, F) == IF before = Null THEN F ELSE before \o << "," >> \o F

\* C20: when the cached record renders to a non-empty list F,
\* node_features_p_node_state keeps the previous content of *avail_modes and
\* of *current_mode as a prefix and appends F after a single comma when the
\* output was present, and sets the output to F when it was absent; when
\* nothing is rendered both outputs are left as they were; both outputs
\* receive the same F.
C20_OutputsAppended ==
    Returned =>
        IF ns.add_features = Null \/ ns.add_features = << >>
        THEN /\ ns.avail_modes = ns.prev_avail_modes
             /\ ns.current_mode = ns.prev_current_mode
        ELSE /\ ns.avail_modes = Appended(ns.prev_avail_modes, ns.add_features)
             /\ ns.current_mode = Appended(ns.prev_current_mode, ns.add_features)

\* a second call has appended F to outputs of which one was absent before
\* the first call
C20_Witness ==
    /\ Returned /\ ns.calls = 2
    /\ ns.add_features = << "V", "E", "N", "D", "O", "R", ":", ":", "A" >>
    /\ ns.prev_avail_modes = << "a", ",", "V", "E", "N", "D", "O", "R", ":", ":", "A" >>
    /\ ns.avail_modes = << "a", ",", "V", "E", "N", "D", "O", "R", ":", ":", "A", ",", "V", "E", "N", "D", "O", "R", ":", ":", "A" >>
    /\ ns.prev_current_mode = << "V", "E", "N", "D", "O", "R", ":", ":", "A" >>
    /\ ns.current_mode = << "V", "E", "N", "D", "O", "R", ":", ":", "A", ",", "V", "E", "N", "D", "O", "R", ":", ":", "A" >>

-----------------------------------------------------------------------------
(* Threads of the host in node_features_p_node_state, node_features_p_reconfig
   and fini (ThSpec).  The record is reduced to its two strings: NULL, a
   string of the heap, or FREED, a pointer whose string has been given back
   to the heap.  Each access to is_node_features_inited or node_features is a
   step of its own. *)

Threads == 1..MaxThreads

NO_OWNER == 0       \* config_mutex when no thread holds it

FREED == << "(freed)" >>

VENDOR_STR == << "A" >>
MODEL_STR  == << "M" >>
GARBAGE    == << "(garbage)" >>
SEGV       == << "(fault)" >>      \* the read ends the process

\* mutant: the lock is taken whether it is held or not
mutex_is_free_always(mutex) == TRUE

\* slurm_mutex_lock(&config_mutex) returns when no thread holds the mutex
mutex_is_free(mutex) == mutex = NO_OWNER

ThreadIdle == [pc |-> "idle", op |-> "none", vendor |-> Null, model |-> Null]

ThInit ==
    /\ have_pci = FALSE
    /\ th = [config_mutex |-> NO_OWNER,
             is_node_features_inited |-> FALSE,
             node_features |-> [vendor_id |-> Null, model_name |-> Null],
             fini_called |-> FALSE, crashed |-> FALSE,
             t |-> [i \in Threads |-> ThreadIdle]]
    /\ cf = CfIdle /\ xl = XlIdle /\ jx = JxIdle /\ rd = RdIdle /\ pv = PvIdle
    /\ ns = NsIdle /\ cli = CliIdle

ThFrame == UNCHANGED <<have_pci, cf, xl, jx, rd, pv, ns, cli>>

Running(i, pc) == ~th.crashed /\ th.t[i].pc = pc

Goto(state, i, pc) == [state EXCEPT !.t[i].pc = pc]

\* the host calls an entry point from thread i; it calls none once it has
\* called fini
HostCalls(i) == Running(i, "idle") /\ ~th.fini_called

\* node_features_p_node_state: if ( ! avail_modes || ! current_mode ) return;
NodeStateEnter(i) ==
    /\ HostCalls(i)
    /\ \E args_null \in BOOLEAN :
          th' = IF args_null
                THEN [th EXCEPT !.t[i] = [ThreadIdle EXCEPT !.op = "node_state returned"]]
                ELSE [th EXCEPT !.t[i] = [ThreadIdle EXCEPT !.op = "node_state",
                                                            !.pc = "lock"]]
    /\ ThFrame

\* node_features_p_reconfig
ReconfigEnter(i) ==
    /\ HostCalls(i)
    /\ th' = [th EXCEPT !.t[i] = [ThreadIdle EXCEPT !.op = "reconfig", !.pc = "lock"]]
    /\ ThFrame

\* fini: no lock is taken
FiniEnter(i) ==
    /\ HostCalls(i)
    /\ th' = [th EXCEPT !.fini_called = TRUE,
                        !.t[i] = [ThreadIdle EXCEPT !.op = "fini", !.pc = "reset_if"]]
    /\ ThFrame

\* slurm_mutex_lock(&config_mutex)
MutexLock(i) ==
    /\ Running(i, "lock")
    /\ mutex_is_free(th.config_mutex)
    /\ th' = [Goto(th, i, IF th.t[i].op = "node_state" THEN "parse_if" ELSE "reset_if")
                EXCEPT !.config_mutex = i]
    /\ ThFrame

\* if ( ! is_node_features_inited ) cpuinfo_features_init(&node_features)
ParseIf(i) ==
    /\ Running(i, "parse_if")
    /\ th' = IF ~th.is_node_features_inited
             THEN [Goto(th, i, "parse") EXCEPT
                     !.node_features = [vendor_id |-> Null, model_name |-> Null]]
             ELSE Goto(th, i, "render_if")
    /\ ThFrame

\* cpuinfo_parse_file: the file cannot be opened, or the vendor_id line is
\* parsed
ParseVendor(i) ==
    /\ Running(i, "parse")
    /\ \E opened \in BOOLEAN :
          th' = IF opened
                THEN [Goto(th, i, "parse_model") EXCEPT !.node_features.vendor_id = VENDOR_STR]
                ELSE [Goto(th, i, "render_if") EXCEPT !.is_node_features_inited = FALSE]
    /\ ThFrame

\* the model name line is parsed, cpuinfo_parse_file returns true
ParseModel(i) ==
    /\ Running(i, "parse_model")
    /\ th' = [Goto(th, i, "render_if") EXCEPT !.node_features.model_name = MODEL_STR,
                                              !.is_node_features_inited = TRUE]
    /\ ThFrame

\* if ( is_node_features_inited )
RenderIf(i) ==
    /\ Running(i, "render_if")
    /\ th' = Goto(th, i, IF th.is_node_features_inited THEN "render_vendor" ELSE "unlock")
    /\ ThFrame

\* what a thread gets when it reads the string p points to: reading a string
\* that was freed is undefined
Reads(p) == IF p = FREED THEN { GARBAGE, SEGV } ELSE { p }

\* if ( node_features.vendor_id ) xstrfmtcat(..., node_features.vendor_id)
RenderVendor(i) ==
    /\ Running(i, "render_vendor")
    /\ \E got \in Reads(th.node_features.vendor_id) :
          th' = IF got = SEGV THEN [th EXCEPT !.crashed = TRUE]
                ELSE [Goto(th, i, "render_model") EXCEPT !.t[i].vendor = got]
    /\ ThFrame

\* if ( node_features.model_name ) xstrfmtcat(..., node_features.model_name)
RenderModel(i) ==
    /\ Running(i, "render_model")
    /\ \E got \in Reads(th.node_features.model_name) :
          th' = IF got = SEGV THEN [th EXCEPT !.crashed = TRUE]
                ELSE [Goto(th, i, "unlock") EXCEPT !.t[i].model = got]
    /\ ThFrame

\* slurm_mutex_unlock(&config_mutex) and return
MutexUnlock(i) ==
    /\ Running(i, "unlock")
    /\ th' = [Goto(th, i, "idle") EXCEPT
                !.config_mutex = NO_OWNER,
                !.t[i].op = IF th.t[i].op = "node_state" THEN "node_state returned"
                            ELSE "reconfig returned"]
    /\ ThFrame

\* return SLURM_SUCCESS from fini
FiniReturn(i) ==
    /\ Running(i, "return")
    /\ th' = [Goto(th, i, "idle") EXCEPT !.t[i].op = "fini returned"]
    /\ ThFrame

\* where reconfig and fini go on behind their if ( is_node_features_inited )
AfterReset(i) == IF th.t[i].op = "fini" THEN "return" ELSE "unlock"

\* if ( is_node_features_inited ), in node_features_p_reconfig and in fini
ResetIf(i) ==
    /\ Running(i, "reset_if")
    /\ th' = Goto(th, i, IF th.is_node_features_inited THEN "free_vendor" ELSE AfterReset(i))
    /\ ThFrame

\* what free(p) leaves of the process: freeing a string twice is undefined
Frees(p) == IF p = FREED THEN { "done", "fault" } ELSE { "done" }

\* cpuinfo_features_reset: if ( cif->vendor_id ) free((void*)cif->vendor_id)
FreeVendor(i) ==
    /\ Running(i, "free_vendor")
    /\ \E freed \in Frees(th.node_features.vendor_id) :
          th' = IF freed = "fault" THEN [th EXCEPT !.crashed = TRUE]
                ELSE [Goto(th, i, "free_model") EXCEPT
                        !.node_features.vendor_id = IF @ = Null THEN Null ELSE FREED]
    /\ ThFrame

\* cpuinfo_features_reset: if ( cif->model_name ) free((void*)cif->model_name)
FreeModel(i) ==
    /\ Running(i, "free_model")
    /\ \E freed \in Frees(th.node_features.model_name) :
          th' = IF freed = "fault" THEN [th EXCEPT !.crashed = TRUE]
                ELSE [Goto(th, i, "reset_init") EXCEPT
                        !.node_features.model_name = IF @ = Null THEN Null ELSE FREED]
    /\ ThFrame

\* cpuinfo_features_reset: return cpuinfo_features_init(cif)
ResetInit(i) ==
    /\ Running(i, "reset_init")
    /\ th' = [Goto(th, i, "reset_flag") EXCEPT
                !.node_features = [vendor_id |-> Null, model_name |-> Null]]
    /\ ThFrame

\* is_node_features_inited = false
ResetFlag(i) ==
    /\ Running(i, "reset_flag")
    /\ th' = [Goto(th, i, AfterReset(i)) EXCEPT !.is_node_features_inited = FALSE]
    /\ ThFrame

ThNext ==
    \E i \in Threads :
        \/ NodeStateEnter(i) \/ ReconfigEnter(i) \/ FiniEnter(i)
        \/ MutexLock(i) \/ ParseIf(i) \/ ParseVendor(i) \/ ParseModel(i)
        \/ RenderIf(i) \/ RenderVendor(i) \/ RenderModel(i) \/ MutexUnlock(i)
        \/ ResetIf(i) \/ FreeVendor(i) \/ FreeModel(i) \/ ResetInit(i) \/ ResetFlag(i)
        \/ FiniReturn(i)

ThSpec == ThInit /\ [][ThNext]_vars

-----------------------------------------------------------------------------
(* Claims about the threads (ThSpec) *)

\* thread i stands at an access to is_node_features_inited or node_features,
\* or at the unlock behind them
AtAccess(i) == th.t[i].pc \notin { "idle", "lock", "return" }

\* thread i is inside the section of node_features_p_node_state or of
\* node_features_p_reconfig
InSection(i) == th.t[i].op \in { "node_state", "reconfig" } /\ AtAccess(i)

Rendering(i) == th.t[i].pc \in { "render_vendor", "render_model" }

\* C21: with threads calling node_features_p_node_state and
\* node_features_p_reconfig concurrently, at most one thread at a time is
\* inside the section of either; a thread that has rendered, with no fini
\* under way, has rendered the strings of a completely parsed record.
C21_OneThreadInSection ==
    /\ \A i, j \in Threads : (i # j /\ InSection(i)) => ~InSection(j)
    /\ \A i \in Threads :
          (~th.fini_called /\ th.t[i].op = "node_state" /\ th.t[i].pc = "unlock"
              /\ th.is_node_features_inited)
          => th.t[i].vendor = VENDOR_STR /\ th.t[i].model = MODEL_STR

\* one thread renders while another, which called node_features_p_reconfig,
\* waits for the mutex
C21_Witness ==
    \E i, j \in Threads :
        /\ Rendering(i) /\ th.config_mutex = i
        /\ th.t[j].op = "reconfig" /\ th.t[j].pc = "lock"
        /\ ~th.fini_called

\* C29: every access to node_features and to is_node_features_inited is made
\* with config_mutex held, in fini as in the other two; fini never frees the
\* strings while another thread renders from them; node_features_p_node_state
\* has released the mutex when it returns.
C29_AllAccessUnderMutex ==
    /\ \A i \in Threads : AtAccess(i) => th.config_mutex = i
    /\ \A i, j \in Threads :
          (th.t[i].op = "fini" /\ th.t[i].pc \in { "free_vendor", "free_model", "reset_init" })
          => ~Rendering(j)
    /\ \A i \in Threads : th.t[i].pc = "idle" => th.config_mutex # i

-----------------------------------------------------------------------------
(* Claims about the cached record over several calls (NsSpec) *)

\* a step in which node_features_p_node_state is called and returns
NodeStateStep == ns.pc = "run" /\ ns'.pc = "run" /\ ns'.calls = ns.calls + 1

\* a step in which node_features_p_reconfig is called
ReconfigStep ==
    ns.pc = "run" /\ ns'.pc = "run" /\ ns'.calls = ns.calls /\ ns'.file = ns.file

\* the records cpuinfo_parse_file can leave in a zeroed record, for a file
\* that can be read
FreshRecords(file) ==
    { cpuinfo_parse_file(cpuinfo_features_init, file, heap).cif : heap \in MemoryTails }

\* C22: after a node_features_p_node_state call that parsed the file
\* successfully, later calls do not read the file again and render from the
\* cached record until node_features_p_reconfig is called; reconfig resets
\* the record (no strings, all fields zero) and clears the initialized flag;
\* the first node_state call after it parses the file again into a zeroed
\* record.
C22_CachedUntilReconfig ==
    [][ /\ (NodeStateStep /\ ns.is_node_features_inited)
           => /\ ns'.is_node_features_inited
              /\ ns'.node_features = ns.node_features
              /\ ns'.add_features = JoinedItems(ns'.pci_features, RecordItems(ns.node_features))
        /\ ReconfigStep
           => /\ ~ns'.is_node_features_inited
              /\ ns.is_node_features_inited => ns'.node_features = cpuinfo_features_init
        /\ (NodeStateStep /\ ~ns.is_node_features_inited /\ ns'.is_node_features_inited)
           => ns'.node_features \in FreshRecords(ns.file)
      ]_vars

\* the second call has rendered the record of the first call although the
\* file has changed since
C22_Witness ==
    /\ Cached /\ ns.calls = 2
    /\ ns.source # ns.file /\ ns.file = OtherFile
    /\ ns.node_features.vendor_id = << "A" >>
    /\ ns.current_mode = << "V", "E", "N", "D", "O", "R", ":", ":", "A", ",", "V", "E", "N", "D", "O", "R", ":", ":", "A" >>

\* the strings and bits of the record are all absent
NoField(cif) == cif = [vendor_id |-> Null, model_name |-> Null, cache_kb |-> 0, flags |-> 0]

OutputsUnchanged ==
    ns'.avail_modes = ns.avail_modes /\ ns'.current_mode = ns.current_mode

\* the call has added to each output the PCI features found, and nothing else
OnlyPciAppended ==
    IF ns'.pci_features = Null THEN OutputsUnchanged
    ELSE /\ ns'.avail_modes = Appended(ns.avail_modes, ns'.pci_features)
         /\ ns'.current_mode = Appended(ns.current_mode, ns'.pci_features)

\* after a failed open the cache stays not-initialized and the record holds
\* no strings; a call that finds the cache not-initialized attempts the parse
OpenFailureKeepsCacheEmpty ==
    /\ (NodeStateStep /\ ~ns.is_node_features_inited /\ ns.file = Null)
       => /\ OutputsUnchanged
          /\ ~ns'.is_node_features_inited
          /\ ns'.node_features.vendor_id = Null /\ ns'.node_features.model_name = Null
    /\ (NodeStateStep /\ ~ns.is_node_features_inited /\ ns.file # Null)
       => ns'.is_node_features_inited /\ ns'.source = ns.file

-----------------------------------------------------------------------------
(* The test program: main under NODE_FEATURE_CPUINFO_TESTING (CliSpec).     *)
(* One pass of its loop over the file arguments, on a file whose stream may *)
(* fail and with a realloc that may refuse.                                 *)

RECURSIVE summarize_flags(_, _, _, _)
\* while ( i < cpuinfo_flags_MAX ) of cpuinfo_features_summarize
summarize_flags(out, delim, flags, i) ==
    IF i < cpuinfo_flags_MAX
    THEN IF HasBits(flags, Mask(i))
         THEN summarize_flags(out \o delim \o PFX_ISA \o cpuinfo_flags_strings[i + 1],
                              COMMA, flags, i + 1)
         ELSE summarize_flags(out, delim, flags, i + 1)
    ELSE out

\* the condition on the line that prints CACHE::
summarize_cache_if(cif) == cif.cache_kb # 0

\* cpuinfo_features_summarize: what it writes to stdout
cpuinfo_features_summarize(cif) ==
    LET o1 == IF cif.vendor_id # Null THEN PFX_VENDOR \o cif.vendor_id ELSE << >>
        d1 == IF cif.vendor_id # Null THEN COMMA ELSE << >>
        o2 == IF cif.model_name # Null THEN o1 \o d1 \o PFX_MODEL \o cif.model_name ELSE o1
        d2 == IF cif.model_name # Null THEN COMMA ELSE d1
        o3 == IF summarize_cache_if(cif)
              THEN o2 \o d2 \o PFX_CACHE \o utoa(cif.cache_kb) \o SUFFIX_KB
              ELSE o2
        d3 == IF summarize_cache_if(cif) THEN COMMA ELSE d2
    IN  summarize_flags(o3, d3, cif.flags, cpuinfo_flags_START) \o << "\n" >>

\* cpuinfo_features_reset
cpuinfo_features_reset(cif) == cpuinfo_features_init

RECURSIVE parse_file_err_code(_)
\* line_reader->err_code when the loop of cpuinfo_parse_file is left, just
\* before line_reader_free
parse_file_err_code(line_reader) ==
    TheOne({ IF next.ret = "NULL" THEN next.err_code
             ELSE IF line_reader_getline(line_reader_trim(next)) = << >> THEN next.err_code
             ELSE parse_file_err_code(line_reader_trim(next)) :
             next \in { line_reader_nextline(line_reader) } })

\* cpuinfo_parse_file on a stream that fails at read_fail_at and with a
\* realloc that refuses the sizes in alloc_deny: as cpuinfo_parse_file, and
\* err_code as the reader had it last (0 when there was no reader)
cpuinfo_parse_file_io(cif, file, read_fail_at, alloc_deny, heap) ==
    IF file = Null
    THEN [cif |-> cif, ret |-> "false", err_code |-> 0]
    ELSE TheOne({ TheOne({ [cif |-> parsed.cif, ret |-> parsed.ret,
                            err_code |-> parse_file_err_code(line_reader)] :
                           parsed \in { parse_file_loop(cif, line_reader, heap, << >>) } }) :
                  line_reader \in { line_reader_create(file, 0, read_fail_at, alloc_deny) } })

\* the stream fails after its first byte, after the first chunk, or never
CliReadFaults == ReadFaults \cup { { MIN_CHUNK_SIZE } }

\* realloc refuses the first line buffer, or to double it, or nothing
CliAllocDenials == AllocDenials \cup { { INITIAL_CAPACITY } }

\* the files named on the command line: the records of CpuinfoFiles without
\* a line put between their lines
CliFiles ==
    { Join(ls, "\n") \o << "\n" >> \o end :
        ls \in RecordLines \ { << >> }, end \in CpuinfoEnds }
    \cup { << >>, Null }

CliInit ==
    /\ have_pci \in BOOLEAN
    /\ cli \in { [pc |-> "loop", file |-> f, read_fail_at |-> r, alloc_deny |-> a,
                  pci_features |-> Null, cif |-> cpuinfo_features_init,
                  ret |-> "none", err_code |-> 0, out |-> << >>] :
                 f \in CliFiles, r \in CliReadFaults, a \in CliAllocDenials }
    /\ cf = CfIdle /\ xl = XlIdle /\ jx = JxIdle /\ rd = RdIdle /\ pv = PvIdle
    /\ ns = NsIdle /\ th = ThIdle

CliFrame == UNCHANGED <<have_pci, cf, xl, jx, rd, pv, ns, th>>

\* pci_device_lookup(..., &pci_features), before the loop
CliPciLookup ==
    /\ cli.pc = "loop"
    /\ \E f \in PciFeatures : cli' = [cli EXCEPT !.pc = "parse", !.pci_features = f]
    /\ CliFrame

\* cpuinfo_features_init(&cif); cpuinfo_parse_file(&cif, argv[argi]);
CliParseFile ==
    /\ cli.pc = "parse"
    /\ \E heap \in MemoryTails :
          LET parsed == cpuinfo_parse_file_io(cpuinfo_features_init, cli.file,
                                              cli.read_fail_at, cli.alloc_deny, heap)
          IN  cli' = [cli EXCEPT !.pc = IF parsed.ret = "fault" THEN "crashed" ELSE "print",
                                 !.cif = parsed.cif, !.ret = parsed.ret,
                                 !.err_code = parsed.err_code]
    /\ CliFrame

\* printf("%s:    %s%s", ...); cpuinfo_features_summarize(&cif); the file
\* name and the blanks after it are left out of out
CliSummarize ==
    /\ cli.pc = "print"
    /\ cli' = [cli EXCEPT !.pc = "reset",
                          !.out = (IF cli.pci_features # Null
                                   THEN cli.pci_features \o COMMA ELSE << >>)
                                  \o cpuinfo_features_summarize(cli.cif)]
    /\ CliFrame

\* cpuinfo_features_reset(&cif); argi++
CliReset ==
    /\ cli.pc = "reset"
    /\ cli' = [cli EXCEPT !.pc = "next", !.cif = cpuinfo_features_reset(cli.cif)]
    /\ CliFrame

CliNext == CliPciLookup \/ CliParseFile \/ CliSummarize \/ CliReset

CliSpec == CliInit /\ [][CliNext]_vars

-----------------------------------------------------------------------------
(* Claims about the test program and about read errors (CliSpec) *)

\* cpuinfo_parse_file has returned
Parsed == cli.pc \in { "print", "reset", "next" }

\* C23: if the file was opened but reading it fails, or the line buffer
\* cannot be grown, cpuinfo_parse_file reports failure for the whole
\* extraction, just as it does when the file cannot be opened.
C23_ReadFailureReported ==
    (Parsed /\ cli.err_code # 0) => cli.ret = "false"

\* the feature list in what the test program prints, the PCI features aside
Summarized(cif) ==
    LET out == cpuinfo_features_summarize(cif) IN SubSeq(out, 1, Len(out) - 1)

\* the feature list node_features_p_node_state renders, the PCI features aside
Rendered(cif) ==
    LET add_features == node_state_render(cif, Null)
    IN  IF add_features = Null THEN << >> ELSE add_features

\* C27: for every record, the feature list printed by the test program
\* equals the feature list node_features_p_node_state renders from the
\* same record (PCI features aside), also for a record with a model name but
\* cache_kb = 0 and for one with a non-zero cache_kb but no model name.
C27_SummarizeAsRendered ==
    cli.pc = "reset" => Summarized(cli.cif) = Rendered(cli.cif)

-----------------------------------------------------------------------------
(* The order of the reconciled list (XlSpec) *)

RECURSIVE IsSubsequence(_, _)
\* the elements of a occur in b, in the order of a, each at a place of its own
IsSubsequence(a, b) ==
    IF a = << >> THEN TRUE
    ELSE IF b = << >> THEN FALSE
    ELSE IF Head(a) = Head(b) THEN IsSubsequence(Tail(a), Tail(b))
    ELSE IsSubsequence(a, Tail(b))

RECURSIVE CommaBefore(_)
\* the tokens, each preceded by one comma
CommaBefore(ts) ==
    IF ts = << >> THEN << >> ELSE << "," >> \o Head(ts) \o CommaBefore(Tail(ts))

NoneTwice(ts) == \A i, j \in 1..Len(ts) : ts[i] = ts[j] => i = j

\* what the result has after the characters of new_features, as tokens
AfterNew(new_features, out_features) ==
    SplitTokens(SubSeq(out_features, Len(new_features) + 1, Len(out_features)), ",")

\* C25: when new_features and orig_features are both non-empty, the result is
\* new_features verbatim, followed by the retained tokens of orig_features,
\* each preceded by one comma and in the order in which they occur in
\* orig_features; no token of orig_features is appended twice, and no owned
\* token is appended.
C25_NewThenRetainedInOrder ==
    (xl.pc = "done" /\ ~ IsEmpty(xl.new_features) /\ ~ IsEmpty(xl.orig_features))
        => /\ HasPrefix(xl.out_features, xl.new_features)
           /\ LET retained == AfterNew(xl.new_features, xl.out_features)
              IN  /\ xl.out_features = xl.new_features \o CommaBefore(retained)
                  /\ IsSubsequence(retained, SplitTokens(xl.orig_features, ","))
                  /\ NoneTwice(retained)
                  /\ \A i \in 1..Len(retained) : ~ IsOwned(retained[i])

\* an owned token of orig_features is dropped, the foreign one before it is
\* appended to the new token
C25_Witness ==
    /\ xl.pc = "done" /\ have_pci
    /\ xl.new_features = PFX_ISA \o << "a" >>
    /\ xl.orig_features = Join(<< << "g" >>, PFX_PCI \o << "g" >> >>, ",")
    /\ xl.out_features = Join(<< PFX_ISA \o << "a" >>, << "g" >> >>, ",")

-----------------------------------------------------------------------------
(* The line buffer of the reader (RdSpec) *)

\* rd.this is a reader
HasReader(state) == state.pc \in { "ready", "line", "end" }

RECURSIVE IsCapacity(_)
\* 128 times a power of two
IsCapacity(c) ==
    c = INITIAL_CAPACITY \/ (c > INITIAL_CAPACITY /\ c % 2 = 0 /\ IsCapacity(c \div 2))

RECURSIVE Grown(_, _)
\* the capacity that holds n bytes and is reached from capacity c by as few
\* steps from 0 to 128 and doublings as possible
Grown(c, n) ==
    IF n <= c THEN c ELSE Grown(IF c = 0 THEN INITIAL_CAPACITY ELSE 2 * c, n)

\* line_reader_nextline is called, on a reader that needs a capacity realloc
\* refuses: one that it would reach if realloc refused nothing
GrowthFails ==
    /\ HasReader(rd) /\ rd.pc # "line" /\ HasReader(rd')
    /\ \E n \in rd.this.alloc_deny :
          /\ rd.this.capacity < n
          /\ n <= line_reader_nextline([rd.this EXCEPT !.alloc_deny = NoFault]).capacity
          /\ Grown(rd.this.capacity, n) = n

\* C26: in every state of the line reader, used <= capacity and capacity is
\* 0 or 128 times a power of two; every byte of the line buffer, the
\* terminating NUL included, lies below capacity; capacity changes only in
\* line_reader_nextline, by steps from 0 to 128 and doublings, and by no more
\* of them than the bytes stored need; if growing fails, err_code becomes
\* ENOMEM and NULL is returned.
C26_CapacityDiscipline ==
    [][ /\ HasReader(rd')
           => /\ rd'.this.used <= rd'.this.capacity
              /\ rd'.this.capacity = 0 \/ IsCapacity(rd'.this.capacity)
              /\ Len(rd'.this.line_buffer) <= rd'.this.capacity
        /\ (HasReader(rd) /\ HasReader(rd'))
           => IF rd.pc = "line"
              THEN rd'.this.capacity = rd.this.capacity
              ELSE rd'.this.capacity = Grown(rd.this.capacity, rd'.this.used)
        /\ rd.pc = "create" /\ HasReader(rd') => rd'.this.capacity = 0
        /\ GrowthFails => rd'.this.ret = "NULL" /\ rd'.this.err_code = ENOMEM
      ]_vars

\* a line of 127 characters and its newline have filled the first buffer,
\* the buffer was doubled for the NUL
C26_Witness ==
    /\ rd.pc = "line"
    /\ rd.this.used = INITIAL_CAPACITY + 1
    /\ rd.this.capacity = 2 * INITIAL_CAPACITY

\* realloc has refused to double the buffer
C26_WitnessNoMemory ==
    /\ rd.pc = "end"
    /\ rd.this.err_code = ENOMEM
    /\ rd.this.used = rd.this.capacity
    /\ rd.this.capacity = INITIAL_CAPACITY

-----------------------------------------------------------------------------
(* The reads of cpuinfo_parse_model_name (PvSpec) *)

\* C28: for every input string, every character position read by
\* cpuinfo_parse_model_name lies at or before the terminating NUL: the call
\* does not read behind the known memory, and what it returns and stores
\* does not depend on the bytes behind the NUL.
C28_NoReadPastNul ==
    PvDone("model name")
        => /\ pv.ret # "fault"
           /\ \A tail \in MemoryTails :
                 cpuinfo_parse_model_name(pv.before, pv.text, tail)
                     = [cif |-> pv.cif, ret |-> pv.ret]

-----------------------------------------------------------------------------
(* The end of the stream (RdSpec) *)

RECURSIVE Delivered(_)
\* the bytes of the lines returned so far, their newlines included
Delivered(raw) ==
    IF raw = << >> THEN 0
    ELSE Len(raw[Len(raw)]) + Delivered(SubSeq(raw, 1, Len(raw) - 1))

\* the last call returned NULL because the stream was exhausted or failed,
\* not for want of memory
StreamEnded == rd.pc = "end" /\ rd.this.err_code # ENOMEM

\* C30: once line_reader_nextline has returned NULL because the stream is
\* exhausted, every later call on the same reader returns NULL and returns
\* no bytes delivered before; err_code is 0 after a normal end of the stream
\* and not 0 after a read error.
C30_EndOfStreamSticky ==
    [][ /\ (StreamEnded /\ HasReader(rd')) => rd'.pc = "end" /\ rd'.raw = rd.raw
        /\ (HasReader(rd') /\ rd'.pc = "end" /\ rd'.this.err_code # ENOMEM)
           => (rd'.this.err_code = 0 <=> ~ rd'.this.ferror)
      ]_vars

====
